---- MODULE Spec2Model ----
(***************************************************************************)
(* The logical text buffer of crates/editor_core: a ropey::Rope behind     *)
(* TextBuffer, the (line, col) position model, the editing operations and  *)
(* the word motions.                                                       *)
(*                                                                         *)
(* A rope is a sequence of characters, each a one-character string.  The   *)
(* storage primitives follow ropey 1.x with its default features: a line   *)
(* break is LF, CR LF (one break) or a lone CR (the other Unicode breaks   *)
(* behave like a lone CR and are represented by it).                       *)
(***************************************************************************)
EXTENDS Integers, Sequences, FiniteSets, TLC

VARIABLES rope, last, frame, cache

vars == <<rope, last, frame, cache>>

(***************************************************************************)
(* Bounds of the model.                                                    *)
(***************************************************************************)
MaxLen == 3
MaxCoord == 3

LF == "\n"
CR == "\r"
WordCh == "a"
Space == " "
NoChar == "?"

Alphabet == {WordCh, Space, LF, CR}

Strings(n) == UNION {[1..k -> Alphabet] : k \in 0..n}

Texts == {<<>>, <<WordCh>>, <<Space>>, <<LF>>, <<CR>>, <<WordCh, LF>>, <<LF, WordCh>>, <<CR, LF>>}

Coords == 0..MaxCoord
PosSet == [line : Coords, col : Coords]
Selections == [anchor : PosSet, cursor : PosSet]
Offsets == 0..(MaxLen + 1)

\* Every content the model can hold, and every argument an operation can be
\* given or can compute on such a content.
Ropes == Strings(MaxLen)
Dims == 0..(IF MaxCoord >= MaxLen THEN MaxCoord ELSE MaxLen)
PosDom == [line : Dims, col : Dims]

Min(a, b) == IF a <= b THEN a ELSE b
Max(a, b) == IF a >= b THEN a ELSE b
saturating_sub(a, b) == IF a >= b THEN a - b ELSE 0

(***************************************************************************)
(* ropey::Rope: the storage primitives TextBuffer calls, each with the     *)
(* condition under which ropey does not panic.                             *)
(***************************************************************************)
\* A line break ends just before offset k (1 <= k <= Len(r)).
IsBreakEnd(r, k) ==
    \/ r[k] = LF
    \/ r[k] = CR /\ (k = Len(r) \/ r[k + 1] # LF)

RECURSIVE LineStartsFrom(_, _)
\* The start offsets of the lines that begin after offset k - 1, in order.
LineStartsFrom(r, k) ==
    IF k > Len(r) THEN <<>>
    ELSE IF IsBreakEnd(r, k) THEN <<k>> \o LineStartsFrom(r, k + 1)
    ELSE LineStartsFrom(r, k + 1)

\* The rope's line index: the start offset of every line, line 0 first.
\* Tabulated once for every content the model can hold.
RopeIndex == [r \in Ropes |-> <<0>> \o LineStartsFrom(r, 1)] @@ <<>>

RopeLenChars(r) == Len(r)

RopeLenLines(r) == Len(RopeIndex[r])

RopeLineToCharOk(r, line) == line <= RopeLenLines(r)
RopeLineToChar(r, line) ==
    IF line < RopeLenLines(r) THEN RopeIndex[r][line + 1] ELSE Len(r)

RopeCharToLineOk(r, c) == c <= Len(r)
RopeCharToLine(r, c) ==
    Cardinality({i \in 1..RopeLenLines(r) : RopeIndex[r][i] <= c}) - 1

RopeCharOk(r, i) == 0 <= i /\ i < Len(r)
RopeChar(r, i) == IF 0 <= i /\ i < Len(r) THEN r[i + 1] ELSE NoChar

RopeSliceOk(r, s, e) == 0 <= s /\ s <= e /\ e <= Len(r)
RopeSlice(r, s, e) == IF RopeSliceOk(r, s, e) THEN SubSeq(r, s + 1, e) ELSE <<>>

RopeLineOk(r, line) == line < RopeLenLines(r)
RopeLine(r, line) ==
    IF line < RopeLenLines(r)
    THEN RopeSlice(r, RopeLineToChar(r, line), RopeLineToChar(r, line + 1))
    ELSE <<>>

RopeRemoveOk(r, s, e) == 0 <= s /\ s <= e /\ e <= Len(r)
RopeRemove(r, s, e) ==
    IF RopeRemoveOk(r, s, e) THEN SubSeq(r, 1, s) \o SubSeq(r, e + 1, Len(r)) ELSE r

RopeInsertOk(r, at) == 0 <= at /\ at <= Len(r)
RopeInsert(r, at, text) ==
    IF RopeInsertOk(r, at) THEN SubSeq(r, 1, at) \o text \o SubSeq(r, at + 1, Len(r)) ELSE r

RopeFromStr(s) == s

(***************************************************************************)
(* buffer/pos.rs: Pos and Selection.                                       *)
(***************************************************************************)
PosNew(line, col) == [line |-> line, col |-> col]
PosZero == [line |-> 0, col |-> 0]

\* derive(PartialOrd, Ord) on Pos {line, col}: lexicographic.
PosLe(a, b) == a.line < b.line \/ (a.line = b.line /\ a.col <= b.col)

SelectionNew(anchor, cursor) == [anchor |-> anchor, cursor |-> cursor]
SelectionEmpty(at) == [anchor |-> at, cursor |-> at]

ordered(sel) ==
    IF PosLe(sel.anchor, sel.cursor)
    THEN <<sel.anchor, sel.cursor>>
    ELSE <<sel.cursor, sel.anchor>>

is_empty(sel) == sel.anchor = sel.cursor

(***************************************************************************)
(* text_buffer/core.rs and lines.rs.                                       *)
(***************************************************************************)
len_chars(r) == RopeLenChars(r)

\* len_lines with a fault: it counts the line breaks.
len_lines_counts_breaks(r) == RopeLenLines(r) - 1
len_lines(r) == RopeLenLines(r)

clamp_line(r, line) ==
    LET lastl == saturating_sub(len_lines(r), 1)
    IN  Min(line, lastl)

line_to_char_ok(r, line) == RopeLineToCharOk(r, clamp_line(r, line))
line_to_char(r, line) == RopeLineToChar(r, clamp_line(r, line))

char_to_line_ok(r, char_idx) == RopeCharToLineOk(r, Min(char_idx, len_chars(r)))
char_to_line(r, char_idx) == RopeCharToLine(r, Min(char_idx, len_chars(r)))

line_len_chars_ok(r, line0) ==
    LET line == clamp_line(r, line0)
        slice == RopeLine(r, line)
        len == Len(slice)
    IN  /\ RopeLineOk(r, line)
        /\ len > 0 => RopeCharOk(slice, len - 1)
\* line_len_chars with a fault: it drops the last character of every
\* non-empty line, a '\n' or not.
line_len_chars_drop_last(r, line0) ==
    LET line == clamp_line(r, line0)
        slice == RopeLine(r, line)
        len == Len(slice)
    IN  IF len > 0 THEN len - 1 ELSE len
line_len_chars(r, line0) ==
    LET line == clamp_line(r, line0)
        slice == RopeLine(r, line)
        len == Len(slice)
    IN  IF len > 0 /\ RopeChar(slice, len - 1) = LF THEN len - 1 ELSE len

line_string_ok(r, line0) == RopeLineOk(r, clamp_line(r, line0))
line_string(r, line0) ==
    LET line == clamp_line(r, line0)
        s == RopeLine(r, line)
    IN  IF Len(s) > 0 /\ s[Len(s)] = LF THEN SubSeq(s, 1, Len(s) - 1) ELSE s

line_char_range_ok(r, line0) ==
    LET line == clamp_line(r, line0)
        start == RopeLineToChar(r, line)
        end_including_newline == start + Len(RopeLine(r, line))
    IN  /\ RopeLineToCharOk(r, line)
        /\ RopeLineOk(r, line)
        /\ end_including_newline > start => RopeCharOk(r, end_including_newline - 1)
\* line_char_range with a fault: it keeps the trailing '\n' in the range.
line_char_range_keeps_newline(r, line0) ==
    LET line == clamp_line(r, line0)
        start == RopeLineToChar(r, line)
    IN  [start |-> start, end |-> start + Len(RopeLine(r, line))]
line_char_range(r, line0) ==
    LET line == clamp_line(r, line0)
        start == RopeLineToChar(r, line)
        end_including_newline == start + Len(RopeLine(r, line))
        end == IF end_including_newline > start
                  /\ RopeChar(r, end_including_newline - 1) = LF
               THEN end_including_newline - 1
               ELSE end_including_newline
    IN  [start |-> start, end |-> end]

(***************************************************************************)
(* text_buffer/positions.rs.                                               *)
(*                                                                         *)
(* Every operation from here on is built from line_len_chars and the three *)
(* conversions clamp_pos, pos_to_char and char_to_pos.  These are          *)
(* tabulated once per content and argument, tab.f[r][x] = f(tab, r, x),    *)
(* and an operation takes the tables it is built from as its first         *)
(* parameter, tab.                                                         *)
(***************************************************************************)
Tabulated(f) == f @@ <<>>
Only(S) == CHOOSE x \in S : TRUE

LineTables ==
    [line_len_chars |->
        Tabulated([r \in Ropes |-> Tabulated([l \in Dims |-> line_len_chars(r, l)])]),
     line_len_chars_ok |->
        Tabulated([r \in Ropes |-> Tabulated([l \in Dims |-> line_len_chars_ok(r, l)])])]

clamp_pos_ok(tab, r, pos) == tab.line_len_chars_ok[r][clamp_line(r, pos.line)]
\* clamp_pos with a fault: it allows the column one past the end of the line.
clamp_pos_one_past(tab, r, pos) ==
    LET line == clamp_line(r, pos.line)
        max_col == tab.line_len_chars[r][line] + 1
        col == Min(pos.col, max_col)
    IN  [line |-> line, col |-> col]
clamp_pos(tab, r, pos) ==
    LET line == clamp_line(r, pos.line)
        max_col == tab.line_len_chars[r][line]
        col == Min(pos.col, max_col)
    IN  [line |-> line, col |-> col]

ClampTables ==
    Only({tab @@
          [clamp_pos |->
              Tabulated([r \in Ropes |-> Tabulated([p \in PosDom |-> clamp_pos(tab, r, p)])]),
           clamp_pos_ok |->
              Tabulated([r \in Ropes |-> Tabulated([p \in PosDom |-> clamp_pos_ok(tab, r, p)])])]
          : tab \in {LineTables}})

pos_to_char_ok(tab, r, pos0) ==
    /\ tab.clamp_pos_ok[r][pos0]
    /\ RopeLineToCharOk(r, tab.clamp_pos[r][pos0].line)
pos_to_char(tab, r, pos0) ==
    LET pos == tab.clamp_pos[r][pos0]
    IN  RopeLineToChar(r, pos.line) + pos.col

char_to_pos_ok(tab, r, char_idx) ==
    LET c == Min(char_idx, len_chars(r))
        line == RopeCharToLine(r, c)
        line_start == RopeLineToChar(r, line)
    IN  /\ RopeCharToLineOk(r, c)
        /\ RopeLineToCharOk(r, line)
        /\ line_start <= c
        /\ tab.line_len_chars_ok[r][line]
\* char_to_pos with a fault: it takes the offset itself as the column.
char_to_pos_absolute_col(tab, r, char_idx) ==
    LET c == Min(char_idx, len_chars(r))
        line == RopeCharToLine(r, c)
        max_col == tab.line_len_chars[r][line]
    IN  [line |-> line, col |-> Min(c, max_col)]
char_to_pos(tab, r, char_idx) ==
    LET c == Min(char_idx, len_chars(r))
        line == RopeCharToLine(r, c)
        line_start == RopeLineToChar(r, line)
        col == c - line_start
        max_col == tab.line_len_chars[r][line]
    IN  [line |-> line, col |-> Min(col, max_col)]

Conversions ==
    Only({tab @@
          [pos_to_char |->
              Tabulated([r \in Ropes |-> Tabulated([p \in PosDom |-> pos_to_char(tab, r, p)])]),
           pos_to_char_ok |->
              Tabulated([r \in Ropes |-> Tabulated([p \in PosDom |-> pos_to_char_ok(tab, r, p)])]),
           char_to_pos |->
              Tabulated([r \in Ropes |-> Tabulated([c \in Offsets |-> char_to_pos(tab, r, c)])]),
           char_to_pos_ok |->
              Tabulated([r \in Ropes |-> Tabulated([c \in Offsets |-> char_to_pos_ok(tab, r, c)])])]
          : tab \in {ClampTables}})

move_left_ok(tab, r, pos) ==
    /\ tab.pos_to_char_ok[r][pos]
    /\ tab.pos_to_char[r][pos] # 0 => tab.char_to_pos_ok[r][tab.pos_to_char[r][pos] - 1]
\* move_left with a fault: at column 0 it stays where it is.
move_left_no_wrap(tab, r, pos) ==
    LET c == tab.pos_to_char[r][pos]
        q == tab.clamp_pos[r][pos]
    IN  IF q.col = 0 THEN q ELSE tab.char_to_pos[r][c - 1]
move_left(tab, r, pos) ==
    LET c == tab.pos_to_char[r][pos]
    IN  IF c = 0 THEN PosZero ELSE tab.char_to_pos[r][c - 1]

move_right_ok(tab, r, pos) ==
    LET c == tab.pos_to_char[r][pos]
        maxc == len_chars(r)
    IN  /\ tab.pos_to_char_ok[r][pos]
        /\ IF c >= maxc THEN tab.char_to_pos_ok[r][maxc] ELSE tab.char_to_pos_ok[r][c + 1]
move_right(tab, r, pos) ==
    LET c == tab.pos_to_char[r][pos]
        maxc == len_chars(r)
    IN  IF c >= maxc THEN tab.char_to_pos[r][maxc] ELSE tab.char_to_pos[r][c + 1]

move_up_ok(tab, r, pos0) ==
    LET pos == tab.clamp_pos[r][pos0]
    IN  /\ tab.clamp_pos_ok[r][pos0]
        /\ pos.line # 0 => tab.line_len_chars_ok[r][pos.line - 1]
\* move_up with a fault: it keeps the column as it is.
move_up_keeps_col(tab, r, pos0) ==
    LET pos == tab.clamp_pos[r][pos0]
    IN  IF pos.line = 0 THEN pos ELSE PosNew(pos.line - 1, pos.col)
move_up(tab, r, pos0) ==
    LET pos == tab.clamp_pos[r][pos0]
        new_line == pos.line - 1
    IN  IF pos.line = 0 THEN pos
        ELSE PosNew(new_line, Min(pos.col, tab.line_len_chars[r][new_line]))

move_down_ok(tab, r, pos0) ==
    LET pos == tab.clamp_pos[r][pos0]
        lastl == saturating_sub(len_lines(r), 1)
    IN  /\ tab.clamp_pos_ok[r][pos0]
        /\ pos.line < lastl => tab.line_len_chars_ok[r][pos.line + 1]
\* move_down with a fault: it aims at the column it was given, not at the
\* clamped one.
move_down_wanted_col(tab, r, pos0) ==
    LET pos == tab.clamp_pos[r][pos0]
        lastl == saturating_sub(len_lines(r), 1)
        new_line == pos.line + 1
    IN  IF pos.line >= lastl THEN pos
        ELSE PosNew(new_line, Min(pos0.col, tab.line_len_chars[r][new_line]))
move_down(tab, r, pos0) ==
    LET pos == tab.clamp_pos[r][pos0]
        lastl == saturating_sub(len_lines(r), 1)
        new_line == pos.line + 1
    IN  IF pos.line >= lastl THEN pos
        ELSE PosNew(new_line, Min(pos.col, tab.line_len_chars[r][new_line]))

\* Option<char>: NoChar stands for None.
char_at_ok(tab, r, pos0) ==
    LET pos == tab.clamp_pos[r][pos0]
    IN  /\ tab.clamp_pos_ok[r][pos0]
        /\ tab.line_len_chars_ok[r][pos.line]
        /\ pos.col < tab.line_len_chars[r][pos.line] =>
              tab.pos_to_char_ok[r][pos] /\ RopeCharOk(r, tab.pos_to_char[r][pos])
char_at(tab, r, pos0) ==
    LET pos == tab.clamp_pos[r][pos0]
        line_len == tab.line_len_chars[r][pos.line]
    IN  IF pos.col >= line_len THEN NoChar ELSE RopeChar(r, tab.pos_to_char[r][pos])

char_before_ok(tab, r, pos) ==
    /\ tab.pos_to_char_ok[r][pos]
    /\ tab.pos_to_char[r][pos] # 0 => RopeCharOk(r, tab.pos_to_char[r][pos] - 1)
char_before(tab, r, pos) ==
    LET c == tab.pos_to_char[r][pos]
    IN  IF c = 0 THEN NoChar ELSE RopeChar(r, c - 1)

(***************************************************************************)
(* buffer/util.rs.                                                         *)
(***************************************************************************)
\* ch.is_ascii_alphanumeric(): '0'..='9', 'A'..='Z', 'a'..='z'.
AsciiAlphanumeric ==
    {"0", "1", "2", "3", "4", "5", "6", "7", "8", "9",
     "A", "B", "C", "D", "E", "F", "G", "H", "I", "J", "K", "L", "M",
     "N", "O", "P", "Q", "R", "S", "T", "U", "V", "W", "X", "Y", "Z",
     "a", "b", "c", "d", "e", "f", "g", "h", "i", "j", "k", "l", "m",
     "n", "o", "p", "q", "r", "s", "t", "u", "v", "w", "x", "y", "z"}
is_ascii_alphanumeric(ch) == ch \in AsciiAlphanumeric

is_word_char(ch) == is_ascii_alphanumeric(ch) \/ ch = "_"

min_pos_ok(tab, r, a0, b0) == tab.clamp_pos_ok[r][a0] /\ tab.clamp_pos_ok[r][b0]
min_pos(tab, r, a0, b0) ==
    LET a == tab.clamp_pos[r][a0]
        b == tab.clamp_pos[r][b0]
    IN  IF PosLe(a, b) THEN a ELSE b

max_pos_ok(tab, r, a0, b0) == tab.clamp_pos_ok[r][a0] /\ tab.clamp_pos_ok[r][b0]
max_pos(tab, r, a0, b0) ==
    LET a == tab.clamp_pos[r][a0]
        b == tab.clamp_pos[r][b0]
    IN  IF PosLe(b, a) THEN a ELSE b

(***************************************************************************)
(* text_buffer/slicing.rs.                                                 *)
(***************************************************************************)
to_string(r) == r

slice_chars_ok(r, start0, end0) ==
    LET maxc == len_chars(r)
        s == Min(start0, maxc)
        e == Min(end0, maxc)
    IN  IF s > e THEN RopeSliceOk(r, e, s) ELSE RopeSliceOk(r, s, e)
slice_chars(r, start0, end0) ==
    LET maxc == len_chars(r)
        s == Min(start0, maxc)
        e == Min(end0, maxc)
    IN  IF s > e THEN RopeSlice(r, e, s) ELSE RopeSlice(r, s, e)

slice_selection_ok(tab, r, sel) ==
    LET ab == ordered(sel)
    IN  /\ tab.pos_to_char_ok[r][ab[1]]
        /\ tab.pos_to_char_ok[r][ab[2]]
        /\ slice_chars_ok(r, tab.pos_to_char[r][ab[1]], tab.pos_to_char[r][ab[2]])
\* slice_selection with a fault: it takes the character at the end offset too.
slice_selection_inclusive(tab, r, sel) ==
    LET ab == ordered(sel)
        start == tab.pos_to_char[r][ab[1]]
        end == tab.pos_to_char[r][ab[2]]
    IN  slice_chars(r, start, end + 1)
slice_selection(tab, r, sel) ==
    LET ab == ordered(sel)
        start == tab.pos_to_char[r][ab[1]]
        end == tab.pos_to_char[r][ab[2]]
    IN  slice_chars(r, start, end)

slice_pos_range_ok(tab, r, a, b) ==
    /\ tab.pos_to_char_ok[r][a]
    /\ tab.pos_to_char_ok[r][b]
    /\ slice_chars_ok(r, tab.pos_to_char[r][a], tab.pos_to_char[r][b])
slice_pos_range(tab, r, a, b) ==
    LET start == tab.pos_to_char[r][a]
        end == tab.pos_to_char[r][b]
    IN  slice_chars(r, start, end)

(***************************************************************************)
(* text_buffer/words.rs.  Each while loop is a recursive scan.             *)
(***************************************************************************)
RECURSIVE SkipLeft(_, _, _)
\* while c > 0 { if is_word_char(rope.char(c - 1)) == stop { break } c -= 1 }
SkipLeft(r, c, stop) ==
    IF c > 0 /\ is_word_char(RopeChar(r, c - 1)) # stop
    THEN SkipLeft(r, c - 1, stop)
    ELSE c

RECURSIVE SkipRight(_, _, _)
\* while c < maxc { if is_word_char(rope.char(c)) == stop { break } c += 1 }
SkipRight(r, c, stop) ==
    IF c < len_chars(r) /\ is_word_char(RopeChar(r, c)) # stop
    THEN SkipRight(r, c + 1, stop)
    ELSE c

\* Every rope.char(c - 1) of the two loops reads at 0 <= c - 1 < len_chars.
word_start_before_ok(tab, r, pos) ==
    LET c0 == tab.pos_to_char[r][pos]
        c1 == SkipLeft(r, c0, TRUE)
        c2 == SkipLeft(r, c1, FALSE)
    IN  /\ tab.pos_to_char_ok[r][pos]
        /\ c0 # 0 =>
              /\ \A c \in (c2 + 1)..c0 : RopeCharOk(r, c - 1)
              /\ c2 > 0 => RopeCharOk(r, c2 - 1)
              /\ tab.char_to_pos_ok[r][c2]
\* word_start_before with a fault: it does not skip the non-word characters
\* first.
word_start_before_no_skip(tab, r, pos) ==
    LET c0 == tab.pos_to_char[r][pos]
        c2 == SkipLeft(r, c0, FALSE)
    IN  IF c0 = 0 THEN PosZero ELSE tab.char_to_pos[r][c2]
word_start_before(tab, r, pos) ==
    LET c0 == tab.pos_to_char[r][pos]
        c1 == SkipLeft(r, c0, TRUE)
        c2 == SkipLeft(r, c1, FALSE)
    IN  IF c0 = 0 THEN PosZero ELSE tab.char_to_pos[r][c2]

word_end_after_ok(tab, r, pos) ==
    LET c0 == tab.pos_to_char[r][pos]
        c1 == SkipRight(r, c0, TRUE)
        c2 == SkipRight(r, c1, FALSE)
    IN  /\ tab.pos_to_char_ok[r][pos]
        /\ \A c \in c0..(c2 - 1) : RopeCharOk(r, c)
        /\ c2 < len_chars(r) => RopeCharOk(r, c2)
        /\ tab.char_to_pos_ok[r][c2]
\* word_end_after with a fault: it stops at the first non-word character,
\* without skipping the non-word characters first.
word_end_after_no_skip(tab, r, pos) ==
    LET c0 == tab.pos_to_char[r][pos]
        c2 == SkipRight(r, c0, FALSE)
    IN  tab.char_to_pos[r][c2]
word_end_after(tab, r, pos) ==
    LET c0 == tab.pos_to_char[r][pos]
        c1 == SkipRight(r, c0, TRUE)
        c2 == SkipRight(r, c1, FALSE)
    IN  tab.char_to_pos[r][c2]

(***************************************************************************)
(* text_buffer/editing.rs.  An editing operation yields the rope after the *)
(* call, the value it returns and ok: every storage access it made was     *)
(* inside the storage's bounds.                                            *)
(***************************************************************************)
\* insert with a fault: it returns the position of the insertion point.
insert_cursor_stays(tab, r, pos, text) ==
    LET at == tab.pos_to_char[r][pos]
        r2 == RopeInsert(r, at, text)
    IN  [rope |-> r2,
         pos |-> tab.char_to_pos[r2][at],
         ok |-> /\ tab.pos_to_char_ok[r][pos]
                /\ RopeInsertOk(r, at)
                /\ tab.char_to_pos_ok[r2][at]]
\* insert with a fault: the text goes in at the start of the content.
insert_at_front(tab, r, pos, text) ==
    LET at == tab.pos_to_char[r][pos]
        r2 == RopeInsert(r, 0, text)
        inserted_chars == RopeLenChars(RopeFromStr(text))
    IN  [rope |-> r2,
         pos |-> tab.char_to_pos[r2][inserted_chars],
         ok |-> /\ tab.pos_to_char_ok[r][pos]
                /\ RopeInsertOk(r, 0)
                /\ tab.char_to_pos_ok[r2][inserted_chars]]
insert(tab, r, pos, text) ==
    LET at == tab.pos_to_char[r][pos]
        r2 == RopeInsert(r, at, text)
        inserted_chars == RopeLenChars(RopeFromStr(text))
    IN  [rope |-> r2,
         pos |-> tab.char_to_pos[r2][at + inserted_chars],
         ok |-> /\ tab.pos_to_char_ok[r][pos]
                /\ RopeInsertOk(r, at)
                /\ tab.char_to_pos_ok[r2][at + inserted_chars]]

\* delete_range with a fault: it takes a as the start and b as the end.
delete_range_unordered(tab, r, a, b) ==
    LET start == tab.pos_to_char[r][a]
        end == tab.pos_to_char[r][b]
        r2 == IF start < end THEN RopeRemove(r, start, end) ELSE r
    IN  [rope |-> r2,
         pos |-> tab.char_to_pos[r2][start],
         ok |-> /\ tab.pos_to_char_ok[r][a]
                /\ tab.pos_to_char_ok[r][b]
                /\ start < end => RopeRemoveOk(r, start, end)
                /\ tab.char_to_pos_ok[r2][start]]
delete_range(tab, r, a, b) ==
    LET start == tab.pos_to_char[r][min_pos(tab, r, a, b)]
        end == tab.pos_to_char[r][max_pos(tab, r, a, b)]
        r2 == IF start < end THEN RopeRemove(r, start, end) ELSE r
    IN  [rope |-> r2,
         pos |-> tab.char_to_pos[r2][start],
         ok |-> /\ min_pos_ok(tab, r, a, b)
                /\ tab.pos_to_char_ok[r][min_pos(tab, r, a, b)]
                /\ max_pos_ok(tab, r, a, b)
                /\ tab.pos_to_char_ok[r][max_pos(tab, r, a, b)]
                /\ start < end => RopeRemoveOk(r, start, end)
                /\ tab.char_to_pos_ok[r2][start]]

\* insert and delete_range, which the other editing operations call, tabulated
\* with the conversions: every content, every argument that leaves the content
\* within MaxLen.
TextsFor(r) == {t \in Texts : Len(r) + Len(t) <= MaxLen}
Tables ==
    Only({tab @@
          [insert |->
              Tabulated([r \in Ropes |-> Tabulated([p \in PosDom |->
                  Tabulated([t \in TextsFor(r) |-> insert(tab, r, p, t)])])]),
           delete_range |->
              Tabulated([r \in Ropes |-> Tabulated([a \in PosDom |->
                  Tabulated([b \in PosDom |-> delete_range(tab, r, a, b)])])])]
          : tab \in {Conversions}})

\* delete_selection with a fault: it returns the cursor of an empty
\* selection as it was given.
delete_selection_unclamped(tab, r, sel) ==
    IF is_empty(sel)
    THEN [rope |-> r, pos |-> sel.cursor, removed |-> FALSE, ok |-> TRUE]
    ELSE LET se == ordered(sel)
             d == tab.delete_range[r][se[1]][se[2]]
         IN  [rope |-> d.rope, pos |-> d.pos, removed |-> TRUE, ok |-> d.ok]
delete_selection(tab, r, sel) ==
    IF is_empty(sel)
    THEN [rope |-> r, pos |-> tab.clamp_pos[r][sel.cursor], removed |-> FALSE,
          ok |-> tab.clamp_pos_ok[r][sel.cursor]]
    ELSE LET se == ordered(sel)
             d == tab.delete_range[r][se[1]][se[2]]
         IN  [rope |-> d.rope, pos |-> d.pos, removed |-> TRUE, ok |-> d.ok]

\* backspace with a fault, no early return at offset 0: the removal
\* of [at - 1, at) is out of bounds there and the call is abandoned.
backspace_no_zero_check(tab, r, sel) ==
    IF ~is_empty(sel)
    THEN LET d == delete_selection(tab, r, sel)
         IN  [rope |-> d.rope, sel |-> SelectionEmpty(d.pos), ok |-> d.ok]
    ELSE LET cursor == tab.clamp_pos[r][sel.cursor]
             at == tab.pos_to_char[r][cursor]
             start == at - 1
             r2 == RopeRemove(r, start, at)
         IN  IF ~RopeRemoveOk(r, start, at)
             THEN [rope |-> r, sel |-> sel, ok |-> FALSE]
             ELSE [rope |-> r2, sel |-> SelectionEmpty(tab.char_to_pos[r2][start]),
                   ok |-> /\ tab.clamp_pos_ok[r][sel.cursor]
                          /\ tab.pos_to_char_ok[r][cursor]
                          /\ tab.char_to_pos_ok[r2][start]]
\* backspace with a fault: the cursor stays at its old offset.
backspace_cursor_stays(tab, r, sel) ==
    IF ~is_empty(sel)
    THEN LET d == delete_selection(tab, r, sel)
         IN  [rope |-> d.rope, sel |-> SelectionEmpty(d.pos), ok |-> d.ok]
    ELSE LET cursor == tab.clamp_pos[r][sel.cursor]
             at == tab.pos_to_char[r][cursor]
             start == at - 1
             r2 == RopeRemove(r, start, at)
         IN  IF at = 0
             THEN [rope |-> r, sel |-> SelectionEmpty(cursor),
                   ok |-> tab.clamp_pos_ok[r][sel.cursor] /\ tab.pos_to_char_ok[r][cursor]]
             ELSE [rope |-> r2, sel |-> SelectionEmpty(tab.char_to_pos[r2][at]),
                   ok |-> /\ tab.clamp_pos_ok[r][sel.cursor]
                          /\ tab.pos_to_char_ok[r][cursor]
                          /\ RopeRemoveOk(r, start, at)
                          /\ tab.char_to_pos_ok[r2][at]]
backspace(tab, r, sel) ==
    IF ~is_empty(sel)
    THEN LET d == delete_selection(tab, r, sel)
         IN  [rope |-> d.rope, sel |-> SelectionEmpty(d.pos), ok |-> d.ok]
    ELSE LET cursor == tab.clamp_pos[r][sel.cursor]
             at == tab.pos_to_char[r][cursor]
             start == at - 1
             r2 == RopeRemove(r, start, at)
         IN  IF at = 0
             THEN [rope |-> r, sel |-> SelectionEmpty(cursor),
                   ok |-> tab.clamp_pos_ok[r][sel.cursor] /\ tab.pos_to_char_ok[r][cursor]]
             ELSE [rope |-> r2, sel |-> SelectionEmpty(tab.char_to_pos[r2][start]),
                   ok |-> /\ tab.clamp_pos_ok[r][sel.cursor]
                          /\ tab.pos_to_char_ok[r][cursor]
                          /\ RopeRemoveOk(r, start, at)
                          /\ tab.char_to_pos_ok[r2][start]]

\* delete with a fault: the cursor moves one offset on.
delete_cursor_advances(tab, r, sel) ==
    IF ~is_empty(sel)
    THEN LET d == delete_selection(tab, r, sel)
         IN  [rope |-> d.rope, sel |-> SelectionEmpty(d.pos), ok |-> d.ok]
    ELSE LET cursor == tab.clamp_pos[r][sel.cursor]
             at == tab.pos_to_char[r][cursor]
             maxc == len_chars(r)
             r2 == RopeRemove(r, at, at + 1)
         IN  IF at >= maxc
             THEN [rope |-> r, sel |-> SelectionEmpty(cursor),
                   ok |-> tab.clamp_pos_ok[r][sel.cursor] /\ tab.pos_to_char_ok[r][cursor]]
             ELSE [rope |-> r2, sel |-> SelectionEmpty(tab.char_to_pos[r2][at + 1]),
                   ok |-> /\ tab.clamp_pos_ok[r][sel.cursor]
                          /\ tab.pos_to_char_ok[r][cursor]
                          /\ RopeRemoveOk(r, at, at + 1)
                          /\ tab.char_to_pos_ok[r2][at]]
delete(tab, r, sel) ==
    IF ~is_empty(sel)
    THEN LET d == delete_selection(tab, r, sel)
         IN  [rope |-> d.rope, sel |-> SelectionEmpty(d.pos), ok |-> d.ok]
    ELSE LET cursor == tab.clamp_pos[r][sel.cursor]
             at == tab.pos_to_char[r][cursor]
             maxc == len_chars(r)
             r2 == RopeRemove(r, at, at + 1)
         IN  IF at >= maxc
             THEN [rope |-> r, sel |-> SelectionEmpty(cursor),
                   ok |-> tab.clamp_pos_ok[r][sel.cursor] /\ tab.pos_to_char_ok[r][cursor]]
             ELSE [rope |-> r2, sel |-> SelectionEmpty(tab.char_to_pos[r2][at]),
                   ok |-> /\ tab.clamp_pos_ok[r][sel.cursor]
                          /\ tab.pos_to_char_ok[r][cursor]
                          /\ RopeRemoveOk(r, at, at + 1)
                          /\ tab.char_to_pos_ok[r2][at]]

\* insert_newline with a fault: a selection is kept and the '\n' goes in
\* at its cursor.
insert_newline_keeps_selection(tab, r, sel) ==
    LET cursor == tab.clamp_pos[r][sel.cursor]
        i == tab.insert[r][cursor][<<LF>>]
    IN  [rope |-> i.rope, sel |-> SelectionEmpty(i.pos),
         ok |-> tab.clamp_pos_ok[r][sel.cursor] /\ i.ok]
insert_newline(tab, r, sel) ==
    IF ~is_empty(sel)
    THEN LET se == ordered(sel)
             d == tab.delete_range[r][se[1]][se[2]]
             i == tab.insert[d.rope][d.pos][<<LF>>]
         IN  [rope |-> i.rope, sel |-> SelectionEmpty(i.pos), ok |-> d.ok /\ i.ok]
    ELSE LET cursor == tab.clamp_pos[r][sel.cursor]
             i == tab.insert[r][cursor][<<LF>>]
         IN  [rope |-> i.rope, sel |-> SelectionEmpty(i.pos),
              ok |-> tab.clamp_pos_ok[r][sel.cursor] /\ i.ok]

\* apply_edit with a fault: it takes the range as given, without ordering
\* its ends.
apply_edit_unordered(tab, r, edit) ==
    LET maxc == len_chars(r)
        start == Min(edit.range.start, maxc)
        end == Min(edit.range.end, maxc)
        r1 == IF start < end THEN RopeRemove(r, start, end) ELSE r
        r2 == RopeInsert(r1, start, edit.insert)
        inserted_chars == RopeLenChars(RopeFromStr(edit.insert))
    IN  IF edit.insert # <<>>
        THEN [rope |-> r2, pos |-> tab.char_to_pos[r2][start + inserted_chars],
              ok |-> RopeInsertOk(r1, start)]
        ELSE [rope |-> r1, pos |-> tab.char_to_pos[r1][start], ok |-> TRUE]

\* apply_edit with a fault: it returns the start of the range after an
\* insertion too.
apply_edit_pos_at_start(tab, r, edit) ==
    LET maxc == len_chars(r)
        start0 == Min(edit.range.start, maxc)
        end0 == Min(edit.range.end, maxc)
        start == IF start0 <= end0 THEN start0 ELSE end0
        end == IF start0 <= end0 THEN end0 ELSE start0
        r1 == IF start < end THEN RopeRemove(r, start, end) ELSE r
        r2 == IF edit.insert # <<>> THEN RopeInsert(r1, start, edit.insert) ELSE r1
    IN  [rope |-> r2, pos |-> tab.char_to_pos[r2][start],
         ok |-> tab.char_to_pos_ok[r2][start]]

\* edit = [range |-> [start, end], insert |-> text]
apply_edit(tab, r, edit) ==
    LET maxc == len_chars(r)
        start0 == Min(edit.range.start, maxc)
        end0 == Min(edit.range.end, maxc)
        start == IF start0 <= end0 THEN start0 ELSE end0
        end == IF start0 <= end0 THEN end0 ELSE start0
        r1 == IF start < end THEN RopeRemove(r, start, end) ELSE r
        r2 == RopeInsert(r1, start, edit.insert)
        inserted_chars == RopeLenChars(RopeFromStr(edit.insert))
    IN  IF edit.insert # <<>>
        THEN [rope |-> r2, pos |-> tab.char_to_pos[r2][start + inserted_chars],
              ok |-> /\ start < end => RopeRemoveOk(r, start, end)
                     /\ RopeInsertOk(r1, start)
                     /\ tab.char_to_pos_ok[r2][start + inserted_chars]]
        ELSE [rope |-> r1, pos |-> tab.char_to_pos[r1][start],
              ok |-> /\ start < end => RopeRemoveOk(r, start, end)
                     /\ tab.char_to_pos_ok[r1][start]]

\* replace_selection with a fault: the selected range is not deleted.
replace_selection_no_delete(tab, r, sel, text) ==
    LET i == tab.insert[r][sel.cursor][text]
    IN  [rope |-> i.rope, sel |-> SelectionEmpty(i.pos), ok |-> i.ok]
\* replace_selection with a fault: the cursor is left where the text starts.
replace_selection_cursor_at_start(tab, r, sel, text) ==
    IF ~is_empty(sel)
    THEN LET se == ordered(sel)
             d == tab.delete_range[r][se[1]][se[2]]
             i == tab.insert[d.rope][d.pos][text]
         IN  [rope |-> i.rope, sel |-> SelectionEmpty(d.pos), ok |-> d.ok /\ i.ok]
    ELSE LET i == tab.insert[r][sel.cursor][text]
         IN  [rope |-> i.rope, sel |-> SelectionEmpty(tab.clamp_pos[r][sel.cursor]),
              ok |-> i.ok]
replace_selection(tab, r, sel, text) ==
    IF ~is_empty(sel)
    THEN LET se == ordered(sel)
             d == tab.delete_range[r][se[1]][se[2]]
             i == tab.insert[d.rope][d.pos][text]
         IN  [rope |-> i.rope, sel |-> SelectionEmpty(i.pos), ok |-> d.ok /\ i.ok]
    ELSE LET i == tab.insert[r][sel.cursor][text]
         IN  [rope |-> i.rope, sel |-> SelectionEmpty(i.pos), ok |-> i.ok]

\* buffer/edit.rs
EditInsert(at_char, text) == [range |-> [start |-> at_char, end |-> at_char], insert |-> text]
EditDelete(start, end) == [range |-> [start |-> start, end |-> end], insert |-> <<>>]
EditReplace(start, end, text) == [range |-> [start |-> start, end |-> end], insert |-> text]

(***************************************************************************)
(* The state machine.  rope is the content of the buffer's storage.  last  *)
(* records the call that has just returned: the operation, its arguments,  *)
(* the content before it, the returned value and ok.  The caller takes the *)
(* result (Resume) before it makes the next call.                          *)
(***************************************************************************)
Call(op, before) ==
    [op |-> op, a |-> PosZero, b |-> PosZero, text |-> <<>>, s |-> 0, e |-> 0,
     before |-> before, ok |-> TRUE,
     pos |-> PosZero, anchor |-> PosZero, flag |-> FALSE, num |-> 0, str |-> <<>>]

NoCall == Call("none", <<>>)

\* frame is the call of a helper of text/mod.rs, or of a word motion, that is
\* running or has just returned; cache is the grapheme cache of the view.
\* Neither exists while the buffer's operations are looked at.
NoFrame ==
    [op |-> "none", pc |-> "done", checks |-> FALSE, a |-> 0, b |-> 0, n |-> 0,
     starts |-> <<>>, total |-> 0, lo |-> 0, hi |-> 0,
     line |-> 0, col |-> 0, result |-> 0]
NoCache == [max_entries |-> 0, entries |-> <<>>, tick |-> 0, order |-> <<>>]

Idle == last.op = "none"

EditingOps == {"insert", "delete_range", "delete_selection", "backspace", "delete",
               "insert_newline", "apply_edit", "replace_selection"}

\* TextBuffer::new, from_str and from_file (a decoded file): any content.
Init ==
    /\ rope \in Strings(MaxLen)
    /\ last = NoCall
    /\ frame = NoFrame
    /\ cache = NoCache

Resume ==
    /\ ~Idle
    /\ UNCHANGED <<frame, cache>>
    /\ last' = NoCall
    /\ UNCHANGED rope

Insert ==
    /\ Idle
    /\ UNCHANGED <<frame, cache>>
    /\ \E pos \in PosSet, text \in Texts :
          /\ Len(rope) + Len(text) <= MaxLen
          /\ \E res \in {Tables.insert[rope][pos][text]} :
                 /\ rope' = res.rope
                 /\ last' = [Call("insert", rope) EXCEPT
                                !.a = pos, !.text = text, !.pos = res.pos, !.ok = res.ok]

DeleteRange ==
    /\ Idle
    /\ UNCHANGED <<frame, cache>>
    /\ \E a \in PosSet, b \in PosSet :
          \E res \in {Tables.delete_range[rope][a][b]} :
              /\ rope' = res.rope
              /\ last' = [Call("delete_range", rope) EXCEPT
                             !.a = a, !.b = b, !.pos = res.pos, !.ok = res.ok]

DeleteSelection ==
    /\ Idle
    /\ UNCHANGED <<frame, cache>>
    /\ \E sel \in Selections :
          \E res \in {delete_selection(Tables, rope, sel)} :
              /\ rope' = res.rope
              /\ last' = [Call("delete_selection", rope) EXCEPT
                             !.a = sel.anchor, !.b = sel.cursor,
                             !.pos = res.pos, !.flag = res.removed, !.ok = res.ok]

Backspace ==
    /\ Idle
    /\ UNCHANGED <<frame, cache>>
    /\ \E sel \in Selections :
          \E res \in {backspace(Tables, rope, sel)} :
              /\ rope' = res.rope
              /\ last' = [Call("backspace", rope) EXCEPT
                             !.a = sel.anchor, !.b = sel.cursor,
                             !.anchor = res.sel.anchor, !.pos = res.sel.cursor,
                             !.ok = res.ok]

Delete ==
    /\ Idle
    /\ UNCHANGED <<frame, cache>>
    /\ \E sel \in Selections :
          \E res \in {delete(Tables, rope, sel)} :
              /\ rope' = res.rope
              /\ last' = [Call("delete", rope) EXCEPT
                             !.a = sel.anchor, !.b = sel.cursor,
                             !.anchor = res.sel.anchor, !.pos = res.sel.cursor,
                             !.ok = res.ok]

InsertNewline ==
    /\ Idle
    /\ UNCHANGED <<frame, cache>>
    /\ Len(rope) + 1 <= MaxLen
    /\ \E sel \in Selections :
          \E res \in {insert_newline(Tables, rope, sel)} :
              /\ rope' = res.rope
              /\ last' = [Call("insert_newline", rope) EXCEPT
                             !.a = sel.anchor, !.b = sel.cursor,
                             !.anchor = res.sel.anchor, !.pos = res.sel.cursor,
                             !.ok = res.ok]

ApplyEdit ==
    /\ Idle
    /\ UNCHANGED <<frame, cache>>
    /\ \E s \in Offsets, e \in Offsets, text \in Texts :
          /\ Len(rope) + Len(text) <= MaxLen
          /\ \E res \in {apply_edit(Tables, rope, EditReplace(s, e, text))} :
                 /\ rope' = res.rope
                 /\ last' = [Call("apply_edit", rope) EXCEPT
                                !.s = s, !.e = e, !.text = text,
                                !.pos = res.pos, !.ok = res.ok]

ReplaceSelection ==
    /\ Idle
    /\ UNCHANGED <<frame, cache>>
    /\ \E sel \in Selections, text \in Texts :
          /\ Len(rope) + Len(text) <= MaxLen
          /\ \E res \in {replace_selection(Tables, rope, sel, text)} :
                 /\ rope' = res.rope
                 /\ last' = [Call("replace_selection", rope) EXCEPT
                                !.a = sel.anchor, !.b = sel.cursor, !.text = text,
                                !.anchor = res.sel.anchor, !.pos = res.sel.cursor,
                                !.ok = res.ok]

\* rope_mut hands out &mut Rope: the caller may insert or remove anywhere.
RopeMut ==
    /\ Idle
    /\ UNCHANGED <<frame, cache>>
    /\ \/ \E at \in 0..Len(rope), text \in Texts :
             /\ Len(rope) + Len(text) <= MaxLen
             /\ rope' = RopeInsert(rope, at, text)
             /\ last' = [Call("rope_mut", rope) EXCEPT !.s = at, !.text = text]
       \/ \E s \in 0..Len(rope), e \in 0..Len(rope) :
             /\ s <= e
             /\ rope' = RopeRemove(rope, s, e)
             /\ last' = [Call("rope_mut", rope) EXCEPT !.s = s, !.e = e]

\* The operations that take &self: the content is left alone.
Query(op, arg, ret, ok) ==
    /\ UNCHANGED <<rope, frame, cache>>
    /\ last' = [Call(op, rope) EXCEPT
                   !.a = arg.a, !.b = arg.b, !.s = arg.s, !.e = arg.e,
                   !.pos = ret.pos, !.num = ret.num, !.str = ret.str, !.ok = ok]

NoArg == [a |-> PosZero, b |-> PosZero, s |-> 0, e |-> 0]
NoRet == [pos |-> PosZero, num |-> 0, str |-> <<>>]
ArgPos(p) == [NoArg EXCEPT !.a = p]
ArgSel(sel) == [NoArg EXCEPT !.a = sel.anchor, !.b = sel.cursor]
ArgNum(n) == [NoArg EXCEPT !.s = n]
RetPos(p) == [NoRet EXCEPT !.pos = p]
RetNum(n) == [NoRet EXCEPT !.num = n]
RetStr(t) == [NoRet EXCEPT !.str = t]

\* The characters is_word_char is asked about: the alphabet of the contents,
\* the ends of the three ASCII ranges, the characters next to them, '_' and '-'.
Chars == Alphabet \cup {"0", "9", "A", "Z", "z", "_", "-", "/", ":", "@", "[", "{"}

\* A call of is_word_char, as the word motions make it for each character.
IsWordChar ==
    /\ Idle
    /\ UNCHANGED <<frame, cache>>
    /\ \E ch \in Chars :
          last' = [Call("is_word_char", rope) EXCEPT !.str = <<ch>>, !.flag = is_word_char(ch)]
    /\ UNCHANGED rope

RopeRef == Idle /\ Query("rope", NoArg, RetStr(rope), TRUE)
LenChars == Idle /\ Query("len_chars", NoArg, RetNum(len_chars(rope)), TRUE)
LenLines == Idle /\ Query("len_lines", NoArg, RetNum(len_lines(rope)), TRUE)
ToStringOp == Idle /\ Query("to_string", NoArg, RetStr(to_string(rope)), TRUE)

ClampLine ==
    Idle /\ \E l \in Coords : Query("clamp_line", ArgNum(l), RetNum(clamp_line(rope, l)), TRUE)
LineToChar ==
    Idle /\ \E l \in Coords :
        Query("line_to_char", ArgNum(l), RetNum(line_to_char(rope, l)), line_to_char_ok(rope, l))
CharToLine ==
    Idle /\ \E c \in Offsets :
        Query("char_to_line", ArgNum(c), RetNum(char_to_line(rope, c)), char_to_line_ok(rope, c))
LineLenChars ==
    Idle /\ \E l \in Coords :
        Query("line_len_chars", ArgNum(l), RetNum(Tables.line_len_chars[rope][l]),
              Tables.line_len_chars_ok[rope][l])
LineString ==
    Idle /\ \E l \in Coords :
        Query("line_string", ArgNum(l), RetStr(line_string(rope, l)), line_string_ok(rope, l))
LineCharRange ==
    Idle /\ \E l \in Coords :
        Query("line_char_range", ArgNum(l),
              [NoRet EXCEPT !.pos = PosNew(line_char_range(rope, l).start,
                                           line_char_range(rope, l).end)],
              line_char_range_ok(rope, l))

ClampPos ==
    Idle /\ \E p \in PosSet :
        Query("clamp_pos", ArgPos(p), RetPos(Tables.clamp_pos[rope][p]), Tables.clamp_pos_ok[rope][p])
PosToChar ==
    Idle /\ \E p \in PosSet :
        Query("pos_to_char", ArgPos(p), RetNum(Tables.pos_to_char[rope][p]), Tables.pos_to_char_ok[rope][p])
CharToPos ==
    Idle /\ \E c \in Offsets :
        Query("char_to_pos", ArgNum(c), RetPos(Tables.char_to_pos[rope][c]), Tables.char_to_pos_ok[rope][c])
MoveLeft ==
    Idle /\ \E p \in PosSet :
        Query("move_left", ArgPos(p), RetPos(move_left(Tables, rope, p)), move_left_ok(Tables, rope, p))
MoveRight ==
    Idle /\ \E p \in PosSet :
        Query("move_right", ArgPos(p), RetPos(move_right(Tables, rope, p)), move_right_ok(Tables, rope, p))
MoveUp ==
    Idle /\ \E p \in PosSet :
        Query("move_up", ArgPos(p), RetPos(move_up(Tables, rope, p)), move_up_ok(Tables, rope, p))
MoveDown ==
    Idle /\ \E p \in PosSet :
        Query("move_down", ArgPos(p), RetPos(move_down(Tables, rope, p)), move_down_ok(Tables, rope, p))
CharAt ==
    Idle /\ \E p \in PosSet :
        Query("char_at", ArgPos(p), RetStr(<<char_at(Tables, rope, p)>>), char_at_ok(Tables, rope, p))
CharBefore ==
    Idle /\ \E p \in PosSet :
        Query("char_before", ArgPos(p), RetStr(<<char_before(Tables, rope, p)>>),
              char_before_ok(Tables, rope, p))
WordStartBefore ==
    Idle /\ \E p \in PosSet :
        Query("word_start_before", ArgPos(p), RetPos(word_start_before(Tables, rope, p)),
              word_start_before_ok(Tables, rope, p))
WordEndAfter ==
    Idle /\ \E p \in PosSet :
        Query("word_end_after", ArgPos(p), RetPos(word_end_after(Tables, rope, p)),
              word_end_after_ok(Tables, rope, p))
SliceChars ==
    Idle /\ \E s \in Offsets, e \in Offsets :
        Query("slice_chars", [NoArg EXCEPT !.s = s, !.e = e],
              RetStr(slice_chars(rope, s, e)), slice_chars_ok(rope, s, e))
SliceSelection ==
    Idle /\ \E sel \in Selections :
        Query("slice_selection", ArgSel(sel), RetStr(slice_selection(Tables, rope, sel)),
              slice_selection_ok(Tables, rope, sel))
SlicePosRange ==
    Idle /\ \E a \in PosSet, b \in PosSet :
        Query("slice_pos_range", [NoArg EXCEPT !.a = a, !.b = b],
              RetStr(slice_pos_range(Tables, rope, a, b)), slice_pos_range_ok(Tables, rope, a, b))

Next ==
    \/ Resume
    \/ Insert \/ DeleteRange \/ DeleteSelection \/ Backspace \/ Delete
    \/ InsertNewline \/ ApplyEdit \/ ReplaceSelection
    \/ RopeMut \/ RopeRef \/ LenChars \/ LenLines \/ ToStringOp
    \/ ClampLine \/ LineToChar \/ CharToLine \/ LineLenChars \/ LineString \/ LineCharRange
    \/ ClampPos \/ PosToChar \/ CharToPos
    \/ MoveLeft \/ MoveRight \/ MoveUp \/ MoveDown
    \/ CharAt \/ CharBefore \/ WordStartBefore \/ WordEndAfter \/ IsWordChar
    \/ SliceChars \/ SliceSelection \/ SlicePosRange

Spec == Init /\ [][Next]_vars

(***************************************************************************)
(* io.rs and TextBuffer::from_file: loading a file.  A file is readable or *)
(* not and holds bytes; a byte is written as its two hex digits.  The      *)
(* bytes of the model are 'a' (61), the two bytes of U+00E9 (C3 A9: a lead *)
(* byte of a two-byte sequence and a continuation byte) and FF, which no   *)
(* UTF-8 text contains.                                                    *)
(***************************************************************************)
MaxBytes == 3

Bytes == {"61", "C3", "A9", "FF"}
AsciiBytes == {"61"}
LeadBytes == {"C3"}
ContinuationBytes == {"A9"}

Files == [readable : BOOLEAN, bytes : UNION {[1..k -> Bytes] : k \in 0..MaxBytes}]

\* The character a valid sequence of one or two bytes encodes.
CharOfBytes(bs) == IF bs = <<"61">> THEN "a" ELSE "U+00E9"

RECURSIVE DecodeFrom(_, _)
\* String::from_utf8 from byte i on: the text, or ok = FALSE at the first
\* byte that starts no valid sequence.
DecodeFrom(bytes, i) ==
    IF i > Len(bytes) THEN [ok |-> TRUE, text |-> <<>>]
    ELSE IF bytes[i] \in AsciiBytes
    THEN LET rest == DecodeFrom(bytes, i + 1)
         IN  [ok |-> rest.ok, text |-> <<CharOfBytes(<<bytes[i]>>)>> \o rest.text]
    ELSE IF bytes[i] \in LeadBytes /\ i < Len(bytes) /\ bytes[i + 1] \in ContinuationBytes
    THEN LET rest == DecodeFrom(bytes, i + 2)
         IN  [ok |-> rest.ok, text |-> <<CharOfBytes(<<bytes[i], bytes[i + 1]>>)>> \o rest.text]
    ELSE [ok |-> FALSE, text |-> <<>>]

from_utf8(bytes) == DecodeFrom(bytes, 1)

\* The two contexts an error of a load carries, and no error.
ReadFailed == "failed to read file"
NotUtf8 == "file is not valid UTF-8"
NoError == ""

\* load_buffer with a fault: it decodes what it can and drops the rest.
load_buffer_lossy(file) ==
    IF ~file.readable
    THEN [ok |-> FALSE, err |-> ReadFailed, text |-> <<>>]
    ELSE [ok |-> TRUE, err |-> NoError, text |-> RopeFromStr(from_utf8(file.bytes).text)]

\* The Result of load_buffer: Ok(buffer with the text) or Err(context).
load_buffer(file) ==
    IF ~file.readable
    THEN [ok |-> FALSE, err |-> ReadFailed, text |-> <<>>]
    ELSE IF ~from_utf8(file.bytes).ok
    THEN [ok |-> FALSE, err |-> NotUtf8, text |-> <<>>]
    ELSE [ok |-> TRUE, err |-> NoError, text |-> RopeFromStr(from_utf8(file.bytes).text)]

\* TextBuffer::from_file: the same steps as load_buffer.
from_file(file) ==
    IF ~file.readable
    THEN [ok |-> FALSE, err |-> ReadFailed, text |-> <<>>]
    ELSE IF ~from_utf8(file.bytes).ok
    THEN [ok |-> FALSE, err |-> NotUtf8, text |-> <<>>]
    ELSE [ok |-> TRUE, err |-> NoError, text |-> RopeFromStr(from_utf8(file.bytes).text)]

\* A load: last holds the file (flag: readable, text: its bytes) and the
\* Result (ok, str: the error's context).  rope is the buffer the caller
\* holds: the one just loaded, or on an error the one it held before.
Loaded(op, file, res) ==
    /\ UNCHANGED <<frame, cache>>
    /\ rope' = IF res.ok THEN res.text ELSE rope
    /\ last' = [Call(op, rope) EXCEPT
                   !.flag = file.readable, !.text = file.bytes,
                   !.ok = res.ok, !.str = <<res.err>>]

LoadBuffer == Idle /\ \E file \in Files : Loaded("load_buffer", file, load_buffer(file))

FromFile == Idle /\ \E file \in Files : Loaded("from_file", file, from_file(file))

LoadInit ==
    /\ rope = <<>>
    /\ last = NoCall
    /\ frame = NoFrame
    /\ cache = NoCache

LoadNext == LoadBuffer \/ FromFile \/ Resume

LoadSpec == LoadInit /\ [][LoadNext]_vars

(***************************************************************************)
(* text/mod.rs: helpers on indices.  usize and isize keep a width, here    *)
(* UsizeBits bits.  An overflow of +, - or negation panics in a build with *)
(* overflow checks (debug) and wraps in one without (release): checks says *)
(* which build runs.                                                       *)
(***************************************************************************)
UsizeBits == 3

UsizeModulus == 2 ^ UsizeBits
UsizeMax == UsizeModulus - 1
Usize == 0..UsizeMax
IsizeMin == 0 - (UsizeModulus \div 2)
IsizeMax == (UsizeModulus \div 2) - 1
Isize == IsizeMin..IsizeMax

\* The value of a usize computation that overflowed in a build without
\* overflow checks.
Wrapped(x) == ((x % UsizeModulus) + UsizeModulus) % UsizeModulus

saturating_add(a, b) == Min(a + b, UsizeMax)

clamp_char(char_idx, n) == Min(char_idx, n)

\* move_char_clamped: the index returned, or panicked in a build with
\* overflow checks when -delta overflows.  (-delta) as usize is -delta, and
\* for the least isize, whose negation wraps to itself, UsizeModulus / 2.
move_char_clamped(current, delta, n, checks) ==
    IF delta = 0 THEN [result |-> clamp_char(current, n), panicked |-> FALSE]
    ELSE IF delta > 0
    THEN [result |-> Min(saturating_add(current, delta), n), panicked |-> FALSE]
    ELSE IF delta = IsizeMin /\ checks
    THEN [result |-> 0, panicked |-> TRUE]
    ELSE [result |-> saturating_sub(current, Wrapped(0 - delta)), panicked |-> FALSE]

\* A call of a helper: its arguments (a, b, n, starts: the table of the
\* line_to_char closure, total: the length of the text the table is of),
\* its locals (lo, hi), its result (line, col, result) and where it is:
\* in a loop ("loop", "delims", "word"), "done" or "panicked".
Frame(op, checks) ==
    [op |-> op, pc |-> "done", checks |-> checks, a |-> 0, b |-> 0, n |-> 0,
     starts |-> <<>>, total |-> 0, lo |-> 0, hi |-> 0,
     line |-> 0, col |-> 0, result |-> 0]

NoHelper == frame.op = "none"

MoveCharClamped ==
    /\ NoHelper
    /\ UNCHANGED <<rope, last, cache>>
    /\ \E current \in Usize, delta \in Isize, n \in Usize, checks \in BOOLEAN :
          \E res \in {move_char_clamped(current, delta, n, checks)} :
              frame' = [Frame("move_char_clamped", checks) EXCEPT
                           !.a = current, !.b = delta, !.n = n,
                           !.result = res.result,
                           !.pc = IF res.panicked THEN "panicked" ELSE "done"]

\* The values the line_to_char closures of the model return.
StartValues == {0, UsizeMax}

\* The line starts of the text r, as Rope::line_to_char gives them.
LineStartsOf(r) == [i \in 1..RopeLenLines(r) |-> RopeLineToChar(r, i - 1)]

\* char_to_line_col up to its loop: line_count is the length of starts.
CharToLineColEnter(char_idx, starts, total, checks) ==
    frame' = IF Len(starts) = 0
             THEN Frame("char_to_line_col", checks)
             ELSE [Frame("char_to_line_col", checks) EXCEPT
                      !.a = char_idx, !.n = Len(starts), !.starts = starts,
                      !.total = total, !.lo = 0, !.hi = Len(starts) - 1,
                      !.pc = "loop"]

\* A call with Rope::line_to_char of the text rope, and one with any
\* line_count and any closure.
CharToLineCol ==
    /\ NoHelper
    /\ UNCHANGED <<rope, last, cache>>
    /\ \E char_idx \in Usize, checks \in BOOLEAN :
          \/ CharToLineColEnter(char_idx, LineStartsOf(rope), Len(rope), checks)
          \/ \E n \in Usize :
                \E starts \in [1..n -> StartValues] :
                    CharToLineColEnter(char_idx, starts, UsizeMax, checks)

\* One turn of the while loop.  lo + hi + 1 may overflow, and so may
\* mid - 1 for a mid of 0.
CharToLineColLoop ==
    /\ frame.op = "char_to_line_col" /\ frame.pc = "loop"
    /\ frame.lo < frame.hi
    /\ UNCHANGED <<rope, last, cache>>
    /\ \E sum \in {frame.lo + frame.hi + 1} :
          IF sum > UsizeMax /\ frame.checks
          THEN frame' = [frame EXCEPT !.pc = "panicked"]
          ELSE \E mid \in {Wrapped(sum) \div 2} :
                  IF frame.starts[mid + 1] <= frame.a
                  THEN frame' = [frame EXCEPT !.lo = mid]
                  ELSE IF mid = 0 /\ frame.checks
                  THEN frame' = [frame EXCEPT !.pc = "panicked"]
                  ELSE frame' = [frame EXCEPT !.hi = Wrapped(mid - 1)]

\* After the loop: the line found and the column on it.
CharToLineColReturn ==
    /\ frame.op = "char_to_line_col" /\ frame.pc = "loop"
    /\ ~(frame.lo < frame.hi)
    /\ UNCHANGED <<rope, last, cache>>
    /\ frame' = [frame EXCEPT
                    !.line = frame.lo,
                    !.col = saturating_sub(frame.a, frame.starts[frame.lo + 1]),
                    !.pc = "done"]

\* word_start_before up to its first loop.  lo is the local c; the first
\* loop runs over the delimiters ("delims"), the second over the word
\* ("word").
WordStartBeforeEnter ==
    /\ NoHelper
    /\ UNCHANGED <<rope, last, cache>>
    /\ \E pos \in PosSet :
          \E c \in {pos_to_char(Tables, rope, pos)} :
              frame' = [Frame("word_start_before", FALSE) EXCEPT
                           !.a = c, !.lo = c, !.n = len_chars(rope),
                           !.pc = IF c = 0 THEN "done" ELSE "delims"]

\* One turn of one of the two loops of word_start_before, or its break.
WordStartBeforeLoop ==
    /\ frame.op = "word_start_before" /\ frame.pc \in {"delims", "word"}
    /\ UNCHANGED <<rope, last, cache>>
    /\ IF /\ frame.lo > 0
          /\ is_word_char(RopeChar(rope, frame.lo - 1)) = (frame.pc = "word")
       THEN frame' = [frame EXCEPT !.lo = frame.lo - 1]
       ELSE IF frame.pc = "delims"
       THEN frame' = [frame EXCEPT !.pc = "word"]
       ELSE \E p \in {char_to_pos(Tables, rope, frame.lo)} :
               frame' = [frame EXCEPT !.pc = "done", !.result = frame.lo,
                                      !.line = p.line, !.col = p.col]

\* word_end_after up to its first loop.
WordEndAfterEnter ==
    /\ NoHelper
    /\ UNCHANGED <<rope, last, cache>>
    /\ \E pos \in PosSet :
          \E c \in {pos_to_char(Tables, rope, pos)} :
              frame' = [Frame("word_end_after", FALSE) EXCEPT
                           !.a = c, !.lo = c, !.n = len_chars(rope),
                           !.pc = "delims"]

\* One turn of one of the two loops of word_end_after, or its break.
WordEndAfterLoop ==
    /\ frame.op = "word_end_after" /\ frame.pc \in {"delims", "word"}
    /\ UNCHANGED <<rope, last, cache>>
    /\ IF /\ frame.lo < frame.n
          /\ is_word_char(RopeChar(rope, frame.lo)) = (frame.pc = "word")
       THEN frame' = [frame EXCEPT !.lo = frame.lo + 1]
       ELSE IF frame.pc = "delims"
       THEN frame' = [frame EXCEPT !.pc = "word"]
       ELSE \E p \in {char_to_pos(Tables, rope, frame.lo)} :
               frame' = [frame EXCEPT !.pc = "done", !.result = frame.lo,
                                      !.line = p.line, !.col = p.col]

\* The caller takes the result, or the panic has unwound.
HelperReturned ==
    /\ frame.op # "none" /\ frame.pc \in {"done", "panicked"}
    /\ UNCHANGED <<rope, last, cache>>
    /\ frame' = NoFrame

TextInit ==
    /\ rope \in Strings(MaxLen)
    /\ last = NoCall
    /\ frame = NoFrame
    /\ cache = NoCache

TextNext ==
    \/ MoveCharClamped
    \/ CharToLineCol \/ CharToLineColLoop \/ CharToLineColReturn
    \/ WordStartBeforeEnter \/ WordStartBeforeLoop
    \/ WordEndAfterEnter \/ WordEndAfterLoop
    \/ HelperReturned

TextSpec == TextInit /\ [][TextNext]_vars

\* A call that has started goes on: the thread that runs it is scheduled,
\* so a loop that can take a turn, or return, does.
TextFairSpec ==
    /\ TextSpec
    /\ WF_vars(CharToLineColLoop) /\ WF_vars(CharToLineColReturn)
    /\ WF_vars(WordStartBeforeLoop) /\ WF_vars(WordEndAfterLoop)

(***************************************************************************)
(* editor_tui/src/ui/mod.rs: the grapheme cache.  cache holds the fields   *)
(* of GraphemeCache; tick is a u64 scaled to TickBits bits, and a hash is  *)
(* the low HashBits bits of hash64 (FNV-1a works modulo a power of two, so *)
(* these are the low bits of the real hash).  order is not a field of the  *)
(* code: it lists the MaxEntries keys asked for last since the cache was   *)
(* new or cleared, each once, the one used longest ago first.              *)
(***************************************************************************)
MaxEntries == 2
MaxLineIdx == 1
TickBits == 3
HashBits == 4

\* The low twelve bits of FNV_OFFSET and FNV_PRIME.
FnvOffsetLow == 805
FnvPrimeLow == 435

RECURSIVE BitXor(_, _)
BitXor(a, b) ==
    IF a = 0 THEN b
    ELSE IF b = 0 THEN a
    ELSE (((a % 2) + (b % 2)) % 2) + 2 * BitXor(a \div 2, b \div 2)

\* The UTF-8 byte of a character of the model.
ByteOf(ch) ==
    CASE ch = "a" -> 97
      [] ch = " " -> 32
      [] ch = LF -> 10
      [] ch = CR -> 13

RECURSIVE FnvFrom(_, _)
FnvFrom(h, text) ==
    IF text = <<>> THEN h
    ELSE FnvFrom((BitXor(h, ByteOf(Head(text)) % (2 ^ HashBits)) * (FnvPrimeLow % (2 ^ HashBits)))
                     % (2 ^ HashBits),
                 Tail(text))

hash64(text) == FnvFrom(FnvOffsetLow % (2 ^ HashBits), text)

RECURSIVE Graphemes(_)
\* line_text.graphemes(true): one cluster per character, "\r\n" being one.
Graphemes(text) ==
    IF text = <<>> THEN <<>>
    ELSE IF Len(text) >= 2 /\ text[1] = CR /\ text[2] = LF
    THEN <<"\r\n">> \o Graphemes(SubSeq(text, 3, Len(text)))
    ELSE <<Head(text)>> \o Graphemes(Tail(text))

\* The lines asked for.
LineTexts == {<<>>, <<"a">>, <<CR, LF>>}

\* GraphemeCache::new and the derived Default.
GraphemeCacheNew(max_entries) ==
    [max_entries |-> Max(max_entries, 1), entries |-> <<>>, tick |-> 0, order |-> <<>>]
GraphemeCacheDefault ==
    [max_entries |-> 0, entries |-> <<>>, tick |-> 0, order |-> <<>>]

KeyOf(e) == [line_idx |-> e.line_idx, hash |-> e.hash]

\* The sequence without its element i, the last element in its place.
swap_remove(entries, i) ==
    IF i = Len(entries) THEN SubSeq(entries, 1, Len(entries) - 1)
    ELSE [j \in 1..(Len(entries) - 1) |-> IF j = i THEN entries[Len(entries)] ELSE entries[j]]

\* The first index that satisfies position's closure, 0 for None.
PositionOf(entries, line_idx, h) ==
    LET hits == {i \in 1..Len(entries) :
                    entries[i].line_idx = line_idx /\ entries[i].hash = h}
    IN  IF hits = {} THEN 0 ELSE CHOOSE i \in hits : \A j \in hits : i <= j

\* min_by_key: the first of the entries with the least last_used_tick.
EvictIdx(entries) ==
    CHOOSE i \in 1..Len(entries) :
        /\ \A j \in 1..Len(entries) : entries[i].last_used_tick <= entries[j].last_used_tick
        /\ \A j \in 1..(i - 1) : entries[j].last_used_tick > entries[i].last_used_tick

\* order with the key moved to its end, cut to the MaxEntries keys used last.
Used(order, key) ==
    LET moved == SelectSeq(order, LAMBDA k : k # key) \o <<key>>
    IN  SubSeq(moved, Max(1, Len(moved) - MaxEntries + 1), Len(moved))

\* graphemes_for_line: the cache afterwards.  The entry returned is the hit,
\* or the one pushed last.
graphemes_for_line(c, line_idx, line_text) ==
    LET tick == (c.tick + 1) % (2 ^ TickBits)
        h == hash64(line_text)
        pos == PositionOf(c.entries, line_idx, h)
        kept == IF Len(c.entries) >= c.max_entries /\ c.entries # <<>>
                THEN swap_remove(c.entries, EvictIdx(c.entries))
                ELSE c.entries
        order == Used(c.order, [line_idx |-> line_idx, hash |-> h])
    IN  IF pos # 0
        THEN [c EXCEPT !.tick = tick, !.entries[pos].last_used_tick = tick,
                       !.order = order]
        ELSE [c EXCEPT !.tick = tick, !.order = order,
                       !.entries = Append(kept,
                           [line_idx |-> line_idx, hash |-> h,
                            graphemes |-> Graphemes(line_text),
                            last_used_tick |-> tick])]

GraphemesForLine ==
    /\ UNCHANGED <<rope, last, frame>>
    /\ \E line_idx \in 0..MaxLineIdx, line_text \in LineTexts :
          cache' = graphemes_for_line(cache, line_idx, line_text)

ClearCache ==
    /\ UNCHANGED <<rope, last, frame>>
    /\ cache' = [cache EXCEPT !.entries = <<>>, !.tick = 0, !.order = <<>>]

CacheInit ==
    /\ rope = <<>>
    /\ last = NoCall
    /\ frame = NoFrame
    /\ cache \in {GraphemeCacheNew(n) : n \in 0..MaxEntries} \cup {GraphemeCacheDefault}

CacheNext == GraphemesForLine \/ ClearCache

CacheSpec == CacheInit /\ [][CacheNext]_vars

(***************************************************************************)
(* The claims.  A claim about one call is stated of the state right after  *)
(* the call, where last holds its arguments, the content before it and     *)
(* what it returned.                                                       *)
(***************************************************************************)
\* p is a position of the content r: an existing line, a column on it.
InBuffer(r, p) == p.line <= len_lines(r) - 1 /\ p.col <= line_len_chars(r, p.line)

\* C1: in every reachable buffer, every offset c with 0 <= c <= len_chars
\* satisfies pos_to_char(char_to_pos(c)) = c.
OffsetRoundTrip ==
    \A c \in 0..len_chars(rope) :
        pos_to_char(Tables, rope, char_to_pos(Tables, rope, c)) = c

\* An editing operation has just changed the content, which now holds a '\n'
\* at some offset c, and that offset and len_chars both round-trip.
OffsetRoundTripWitness ==
    /\ last.op \in EditingOps
    /\ rope # last.before
    /\ \E c \in 0..(len_chars(rope) - 1) :
          /\ rope[c + 1] = LF
          /\ pos_to_char(Tables, rope, char_to_pos(Tables, rope, c)) = c
    /\ pos_to_char(Tables, rope, char_to_pos(Tables, rope, len_chars(rope))) = len_chars(rope)

BeforeNextLine(r, p) ==
    p.line + 1 < len_lines(r) =>
        RopeLineToChar(r, p.line) + p.col < RopeLineToChar(r, p.line + 1)

DeleteInserted == Tables.delete_range[rope][last.a][last.pos]

JoinsBreak ==
    /\ last.text # <<>>
    /\ last.text[1] = LF
    /\ char_before(Tables, last.before, last.a) = CR

OnlyEditingOpsMutate ==
    [][rope' # rope => last'.op \in EditingOps]_vars

\* The positions and the offset a call returns.
ReturnsPos == {"clamp_pos", "char_to_pos", "move_left", "move_right", "move_up",
               "move_down", "word_start_before", "word_end_after"} \cup EditingOps
ReturnsSelection == {"backspace", "delete", "insert_newline", "replace_selection"}

\* C5: every position returned by clamp_pos, char_to_pos, a movement, a word
\* motion or an editing operation, whatever the arguments, has
\* line <= len_lines - 1 and col <= line_len_chars(line) in the buffer as it
\* is after the call, and every offset pos_to_char returns is <= len_chars.
ReturnedPositionsInBounds ==
    /\ last.op \in ReturnsPos => InBuffer(rope, last.pos)
    /\ last.op \in ReturnsSelection => InBuffer(rope, last.anchor)
    /\ last.op = "pos_to_char" => last.num <= len_chars(rope)

\* replace_selection was called with both ends of the selection outside the
\* buffer, changed the content and returned a selection inside the new one.
ReturnedPositionsInBoundsWitness ==
    /\ last.op = "replace_selection"
    /\ ~InBuffer(last.before, last.a)
    /\ ~InBuffer(last.before, last.b)
    /\ rope # last.before
    /\ len_lines(rope) > 1
    /\ InBuffer(rope, last.pos)
    /\ InBuffer(rope, last.anchor)

\* C6: len_lines() >= 1 in every reachable buffer state, the empty buffer
\* included.
AtLeastOneLine == len_lines(rope) >= 1

\* An editing operation has deleted the whole content: one line is left.
AtLeastOneLineWitness ==
    /\ last.op \in EditingOps
    /\ last.before # <<>>
    /\ rope = <<>>
    /\ len_chars(rope) = 0
    /\ len_lines(rope) = 1

\* The offsets of the two ends of the selection delete_selection was given, in
\* the content before the call.
SelStart ==
    Min(pos_to_char(Tables, last.before, last.a), pos_to_char(Tables, last.before, last.b))
SelEnd ==
    Max(pos_to_char(Tables, last.before, last.a), pos_to_char(Tables, last.before, last.b))

\* C7: delete_selection(sel) with anchor = cursor returns
\* (clamp_pos(sel.cursor), false) and leaves the content as it was; with
\* anchor # cursor it returns (the position of the start of the range, true)
\* and the content is the content before without the characters of
\* [start, end).
DeleteSelectionContract ==
    last.op = "delete_selection" =>
        IF last.a = last.b
        THEN /\ last.pos = clamp_pos(Tables, last.before, last.b)
             /\ last.flag = FALSE
             /\ rope = last.before
        ELSE /\ last.flag = TRUE
             /\ rope = SubSeq(last.before, 1, SelStart)
                          \o SubSeq(last.before, SelEnd + 1, Len(last.before))
             /\ last.pos = char_to_pos(Tables, rope, SelStart)

\* delete_selection was given a selection whose cursor comes before its
\* anchor and removed a range that does not start at offset 0.
DeleteSelectionContractWitness ==
    /\ last.op = "delete_selection"
    /\ last.a # last.b
    /\ PosLe(last.b, last.a)
    /\ last.flag = TRUE
    /\ 0 < SelStart
    /\ SelStart < SelEnd
    /\ Len(rope) = Len(last.before) - (SelEnd - SelStart)
    /\ last.pos = char_to_pos(Tables, rope, SelStart)

\* apply_edit on the content before the call, with the ends of the range
\* swapped.
SwappedEdit == apply_edit(Tables, last.before, EditReplace(last.e, last.s, last.text))

\* C8: apply_edit with range a..b and apply_edit with range b..a, from the
\* same buffer with the same text, give the same content and return the same
\* position, for all offsets a and b, beyond len_chars too.
ApplyEditOrderIndependent ==
    last.op = "apply_edit" =>
        SwappedEdit.rope = rope /\ SwappedEdit.pos = last.pos

\* apply_edit was called with start > end, start beyond len_chars, and it
\* removed and inserted text; the call with the ends swapped gives the same.
ApplyEditOrderIndependentWitness ==
    /\ last.op = "apply_edit"
    /\ last.s > last.e
    /\ last.s > Len(last.before)
    /\ last.e < Len(last.before)
    /\ last.text # <<>>
    /\ SwappedEdit.rope = rope
    /\ SwappedEdit.pos = last.pos
    /\ rope # last.before

\* The ends of the range apply_edit was given, clamped to [0, len_chars] and
\* ordered.
EditStart == Min(Min(last.s, Len(last.before)), Min(last.e, Len(last.before)))
EditEnd == Max(Min(last.s, Len(last.before)), Min(last.e, Len(last.before)))

\* C9: after apply_edit(edit), with s <= e the clamped and ordered ends of the
\* range, the content is before[0..s) ++ edit.insert ++ before[e..] and the
\* position returned is that of offset s + char_count(edit.insert) in the new
\* buffer when edit.insert is not empty, of offset s when it is.
ApplyEditContract ==
    last.op = "apply_edit" =>
        /\ rope = SubSeq(last.before, 1, EditStart) \o last.text
                     \o SubSeq(last.before, EditEnd + 1, Len(last.before))
        /\ last.pos = char_to_pos(Tables, rope,
                                  IF last.text # <<>> THEN EditStart + Len(last.text)
                                                      ELSE EditStart)

\* apply_edit replaced a non-empty range that does not start at offset 0 by a
\* text with a line break, and returned the position after the text.
ApplyEditContractWitness ==
    /\ last.op = "apply_edit"
    /\ 0 < EditStart
    /\ EditStart < EditEnd
    /\ last.text # <<>>
    /\ rope = SubSeq(last.before, 1, EditStart) \o last.text
                 \o SubSeq(last.before, EditEnd + 1, Len(last.before))
    /\ last.pos = char_to_pos(Tables, rope, EditStart + Len(last.text))
    /\ last.pos.line > 0

\* C10: every in-memory operation is total: whatever the buffer and the
\* arguments, every access the call made to the storage was inside the
\* storage's bounds.
EveryCallInBounds == last.ok

\* delete_range was called with both positions outside the buffer, and
\* backspace at offset 0; neither accessed the storage out of bounds.
EveryCallInBoundsWitness ==
    \/ /\ last.op = "delete_range"
       /\ ~InBuffer(last.before, last.a)
       /\ ~InBuffer(last.before, last.b)
       /\ last.a.line > len_lines(last.before)
       /\ last.ok
    \/ /\ last.op = "backspace"
       /\ last.a = last.b
       /\ pos_to_char(Tables, last.before, last.b) = 0
       /\ last.ok

\* The line of p clamped to [0, len_lines - 1], then its column clamped to
\* [0, line_len_chars(line)].
ClampedInto(r, p) ==
    [line |-> Min(p.line, len_lines(r) - 1),
     col |-> Min(p.col, line_len_chars(r, Min(p.line, len_lines(r) - 1)))]

\* C11: clamp_pos(p) is p with its line clamped to [0, len_lines - 1] and then
\* its column to [0, line_len_chars(line)], and clamping it again changes
\* nothing: clamp_pos(clamp_pos(p)) = clamp_pos(p), for every buffer and p.
ClampIdempotent ==
    last.op = "clamp_pos" =>
        /\ last.pos = ClampedInto(rope, last.a)
        /\ clamp_pos(Tables, rope, last.pos) = last.pos

\* clamp_pos was given a line past the last one and a column past the end of
\* the last line of a buffer of several lines, and moved both.
ClampIdempotentWitness ==
    /\ last.op = "clamp_pos"
    /\ len_lines(rope) > 1
    /\ last.a.line > len_lines(rope) - 1
    /\ last.a.col > line_len_chars(rope, len_lines(rope) - 1)
    /\ last.pos.line < last.a.line
    /\ last.pos.col < last.a.col
    /\ clamp_pos(Tables, rope, last.pos) = last.pos

\* The characters of line l of the content, its line break included.
WholeLine(l) == RopeLine(rope, clamp_line(rope, l))

\* 1 if line l ends with '\n', else 0.
TrailingNewlines(l) ==
    IF Len(WholeLine(l)) > 0 /\ WholeLine(l)[Len(WholeLine(l))] = LF THEN 1 ELSE 0

\* C12: for every buffer and line l, line_len_chars(l) is the line's character
\* count minus one trailing '\n' if it has one, line_char_range(l) is
\* [line_start(l), line_start(l) + line_len_chars(l)), and slice_chars over
\* that range is line_string(l), which does not end with '\n'.
NewlineExclusionConsistent ==
    last.op = "line_char_range" =>
        /\ line_len_chars(rope, last.s) = Len(WholeLine(last.s)) - TrailingNewlines(last.s)
        /\ last.pos.line = line_to_char(rope, last.s)
        /\ last.pos.col = line_to_char(rope, last.s) + line_len_chars(rope, last.s)
        /\ slice_chars(rope, last.pos.line, last.pos.col) = line_string(rope, last.s)
        /\ \/ line_string(rope, last.s) = <<>>
           \/ line_string(rope, last.s)[Len(line_string(rope, last.s))] # LF

\* line_char_range was asked for a line after the first that has content and
\* ends with '\n'.
NewlineExclusionConsistentWitness ==
    /\ last.op = "line_char_range"
    /\ last.s > 0
    /\ last.s < len_lines(rope)
    /\ TrailingNewlines(last.s) = 1
    /\ line_len_chars(rope, last.s) = 1
    /\ last.pos.col = last.pos.line + 1
    /\ slice_chars(rope, last.pos.line, last.pos.col) = line_string(rope, last.s)

\* The word characters as the claims name them: ASCII letters, ASCII digits
\* and '_'.
AsciiDigits == {"0", "1", "2", "3", "4", "5", "6", "7", "8", "9"}
AsciiLetters ==
    {"A", "B", "C", "D", "E", "F", "G", "H", "I", "J", "K", "L", "M",
     "N", "O", "P", "Q", "R", "S", "T", "U", "V", "W", "X", "Y", "Z",
     "a", "b", "c", "d", "e", "f", "g", "h", "i", "j", "k", "l", "m",
     "n", "o", "p", "q", "r", "s", "t", "u", "v", "w", "x", "y", "z"}
WordChars == AsciiLetters \cup AsciiDigits \cup {"_"}

\* Every character of the content at the offsets lo .. hi - 1 is a word
\* character (word = TRUE) or none of them is (word = FALSE).
AllWord(lo, hi, word) == \A i \in lo..(hi - 1) : (rope[i + 1] \in WordChars) = word

\* The offset the motion started from.
MotionFrom == pos_to_char(Tables, rope, last.a)

\* C13: word_start_before(pos), from c = pos_to_char(pos), moves left over the
\* non-word characters (newlines too) to an offset m with m = 0 or a word
\* character before it, then left over the word characters to an offset r
\* with r = 0 or a non-word character before it, and returns the position of
\* r; so r <= c.  The word characters are the ASCII letters, the ASCII digits
\* and '_'.
WordStartBeforeContract ==
    /\ last.op = "word_start_before" =>
          \E m \in 0..MotionFrom : \E r \in 0..m :
              /\ AllWord(m, MotionFrom, FALSE)
              /\ m = 0 \/ rope[m] \in WordChars
              /\ AllWord(r, m, TRUE)
              /\ r = 0 \/ rope[r] \notin WordChars
              /\ last.pos = char_to_pos(Tables, rope, r)
    /\ last.op = "is_word_char" => last.flag = (last.str[1] \in WordChars)

\* word_start_before started after a '\n' that follows a word which follows a
\* non-word character: it went over the '\n' and the word and stopped at
\* offset 1.
WordStartBeforeContractWitness ==
    /\ last.op = "word_start_before"
    /\ MotionFrom = 3
    /\ rope[3] = LF
    /\ rope[2] \in WordChars
    /\ rope[1] \notin WordChars
    /\ last.pos = char_to_pos(Tables, rope, 1)

\* C14: word_end_after(pos), from c = pos_to_char(pos), moves right over the
\* non-word characters to an offset m with m = len_chars or a word character
\* at it, then right over the word characters to an offset r with
\* r = len_chars or a non-word character at it, and returns the position of
\* r; so r >= c.
WordEndAfterContract ==
    last.op = "word_end_after" =>
        \E m \in MotionFrom..len_chars(rope) : \E r \in m..len_chars(rope) :
            /\ AllWord(MotionFrom, m, FALSE)
            /\ m = len_chars(rope) \/ rope[m + 1] \in WordChars
            /\ AllWord(m, r, TRUE)
            /\ r = len_chars(rope) \/ rope[r + 1] \notin WordChars
            /\ last.pos = char_to_pos(Tables, rope, r)

\* word_end_after started at a '\n' before a word that a non-word character
\* follows: it went over the '\n' and the word and stopped at offset 2.
WordEndAfterContractWitness ==
    /\ last.op = "word_end_after"
    /\ len_chars(rope) = 3
    /\ MotionFrom = 0
    /\ rope[1] = LF
    /\ rope[2] \in WordChars
    /\ rope[3] \notin WordChars
    /\ last.pos = char_to_pos(Tables, rope, 2)

\* delete_selection called right after slice_selection, with the same
\* selection.
DeleteSliced == delete_selection(Tables, rope, SelectionNew(last.a, last.b))

\* C15: slice_selection(sel) returns the characters of the content in
\* [min, max), min <= max the offsets of the clamped ends of sel; it returns
\* the same with anchor and cursor swapped; what it returns is the text
\* delete_selection(sel) then removes; and it leaves the content unchanged.
SliceSelectionContract ==
    last.op = "slice_selection" =>
        /\ last.str = SubSeq(rope, SelStart + 1, SelEnd)
        /\ slice_selection(Tables, rope, SelectionNew(last.b, last.a)) = last.str
        /\ rope = SubSeq(rope, 1, SelStart) \o last.str \o SubSeq(rope, SelEnd + 1, Len(rope))
        /\ DeleteSliced.rope = SubSeq(rope, 1, SelStart) \o SubSeq(rope, SelEnd + 1, Len(rope))
        /\ rope = last.before

\* slice_selection was given a selection that spans a line break, its cursor
\* before its anchor, and returned two characters from inside the content.
SliceSelectionContractWitness ==
    /\ last.op = "slice_selection"
    /\ last.b.line < last.a.line
    /\ SelStart > 0
    /\ Len(last.str) = 2
    /\ last.str = SubSeq(rope, SelStart + 1, SelEnd)
    /\ Len(DeleteSliced.rope) = Len(rope) - 2

\* The UTF-8 encoding of a text of the characters "a" and "U+00E9".
RECURSIVE Utf8Of(_)
Utf8Of(text) ==
    IF text = <<>> THEN <<>>
    ELSE (IF Head(text) = "a" THEN <<"61">> ELSE <<"C3", "A9">>) \o Utf8Of(Tail(text))

\* The texts whose UTF-8 encoding is the bytes of the file just loaded: none
\* when the bytes are not valid UTF-8, else one.
TextsOfFile ==
    {text \in UNION {[1..k -> {"a", "U+00E9"}] : k \in 0..Len(last.text)} :
        Utf8Of(text) = last.text}

\* C16: a load has three outcomes: the file cannot be read: an I/O failure;
\* it can be read and its bytes are not valid UTF-8: an encoding error,
\* different from the I/O failure; it can be read and is valid UTF-8: a
\* buffer whose content is the whole decoded file.  On either error no
\* buffer is produced.
LoadOutcomes ==
    last.op \in {"load_buffer", "from_file"} =>
        /\ ~last.flag =>
              /\ ~last.ok
              /\ last.str = <<ReadFailed>>
              /\ rope = last.before
        /\ last.flag /\ TextsOfFile = {} =>
              /\ ~last.ok
              /\ last.str = <<NotUtf8>>
              /\ last.str # <<ReadFailed>>
              /\ rope = last.before
        /\ last.flag /\ TextsOfFile # {} =>
              /\ last.ok
              /\ last.str = <<NoError>>
              /\ TextsOfFile = {rope}

\* A buffer is held, and a load of a readable file that starts with valid
\* UTF-8 and ends in the middle of a two-byte sequence gave the encoding
\* error and left that buffer alone.
LoadOutcomesWitness ==
    /\ last.op = "load_buffer"
    /\ last.flag
    /\ last.text = <<"61", "C3">>
    /\ ~last.ok
    /\ last.str = <<NotUtf8>>
    /\ rope = <<"U+00E9", "a">>

\* The call just made had an empty selection.
EmptySelection == last.a = last.b

\* The offset of the cursor of the call just made, in the content before it.
CursorOffset == pos_to_char(Tables, last.before, last.b)

\* The cursor of the call just made, clamped into the content before it.
ClampedCursor == clamp_pos(Tables, last.before, last.b)

\* The content before the call without the characters from..(to - 1).
Without(from, to) ==
    SubSeq(last.before, 1, from) \o SubSeq(last.before, to + 1, Len(last.before))

\* The call just made returned the empty selection at p.
ReturnedEmptyAt(p) == last.pos = p /\ last.anchor = p

\* backspace with an empty selection: nothing at offset 0, else the one
\* character before the cursor goes and the cursor moves onto its offset.
BackspaceOneChar ==
    /\ CursorOffset = 0 =>
          /\ rope = last.before
          /\ ReturnedEmptyAt(PosZero)
    /\ CursorOffset > 0 =>
          /\ rope = Without(CursorOffset - 1, CursorOffset)
          /\ ReturnedEmptyAt(char_to_pos(Tables, rope, CursorOffset - 1))

\* The cursor of the call just made is at column 0 of a line after the first.
AtLineStart == ClampedCursor.col = 0 /\ ClampedCursor.line > 0

\* The character before the cursor is a '\n' that is a line break alone.
AfterLoneLF ==
    /\ last.before[CursorOffset] = LF
    /\ CursorOffset > 1 => last.before[CursorOffset - 1] # CR

\* The cursor's line and the one before it became one line, and the
\* returned cursor is where the line before it ended.
LinesJoined ==
    /\ len_lines(rope) = len_lines(last.before) - 1
    /\ last.pos = PosNew(ClampedCursor.line - 1,
                         line_len_chars(last.before, ClampedCursor.line - 1))

DeleteEmpty ==
    last.op = "delete" /\ EmptySelection =>
        /\ CursorOffset <= len_chars(last.before)
        /\ CursorOffset = len_chars(last.before) =>
              /\ rope = last.before
              /\ ReturnedEmptyAt(ClampedCursor)
        /\ CursorOffset < len_chars(last.before) =>
              /\ rope = Without(CursorOffset, CursorOffset + 1)
              /\ len_chars(rope) = len_chars(last.before) - 1
              /\ ReturnedEmptyAt(char_to_pos(Tables, rope, CursorOffset))

\* A delete in the middle of "\r\n" took the '\n' away, and the position of
\* the same offset is now the start of the line the lone '\r' ends.
DeleteEmptyWitness ==
    /\ last.op = "delete"
    /\ EmptySelection
    /\ last.before = <<"a", CR, LF>>
    /\ last.b = PosNew(0, 2)
    /\ rope = <<"a", CR>>
    /\ last.pos = PosNew(1, 0)

\* The offset insert was called at, in the content before it.
InsertAt == pos_to_char(Tables, last.before, last.a)

\* The indices of the '\n' of the inserted text.
NewlinesOf(text) == {i \in 1..Len(text) : text[i] = LF}

\* The position k lines below the clamped insertion line, at the column
\* just after the last inserted character, k the number of '\n' inserted.
BelowInsertion ==
    LET k == Cardinality(NewlinesOf(last.text))
        from == clamp_pos(Tables, last.before, last.a)
    IN  IF k = 0
        THEN PosNew(from.line, from.col + Len(last.text))
        ELSE PosNew(from.line + k,
                    Len(last.text) - CHOOSE i \in NewlinesOf(last.text) :
                                         \A j \in NewlinesOf(last.text) : j <= i)

\* insert puts the text at the offset of the clamped position, the content
\* grows by its length, and the position of the offset after it is returned.
InsertSplices ==
    /\ rope = SubSeq(last.before, 1, InsertAt) \o last.text
                  \o SubSeq(last.before, InsertAt + 1, Len(last.before))
    /\ len_chars(rope) = len_chars(last.before) + Len(last.text)
    /\ last.pos = char_to_pos(Tables, rope, InsertAt + Len(last.text))

NoCR ==
    /\ \A i \in 1..Len(last.before) : last.before[i] # CR
    /\ \A i \in 1..Len(last.text) : last.text[i] # CR

SwappedRange == delete_range(Tables, last.before, last.b, last.a)

\* C20: delete_range(a, b) and delete_range(b, a) give the same content and
\* the same position; with min <= max the offsets of the clamped a and b,
\* the characters of [min, max) and no others are removed, the position of
\* offset min is returned, and nothing is removed when min = max.
DeleteRangeContract ==
    last.op = "delete_range" =>
        /\ rope = SwappedRange.rope
        /\ last.pos = SwappedRange.pos
        /\ SelStart = pos_to_char(Tables, last.before,
                                  min_pos(Tables, last.before, last.a, last.b))
        /\ SelEnd = pos_to_char(Tables, last.before,
                                max_pos(Tables, last.before, last.a, last.b))
        /\ rope = Without(SelStart, SelEnd)
        /\ len_chars(rope) = len_chars(last.before) - (SelEnd - SelStart)
        /\ last.pos = char_to_pos(Tables, rope, SelStart)
        /\ SelStart = SelEnd => rope = last.before

\* delete_range was given the later position first, one of them past the end
\* of its line, and removed the two characters between the clamped ends.
DeleteRangeContractWitness ==
    /\ last.op = "delete_range"
    /\ last.before = <<"a", LF, "a">>
    /\ last.a = PosNew(1, 3)
    /\ last.b = PosNew(0, 1)
    /\ rope = <<"a">>
    /\ last.pos = PosNew(0, 1)

\* The content before the call with the range [SelStart, SelEnd) replaced
\* by text.
Spliced(text) ==
    SubSeq(last.before, 1, SelStart) \o text
        \o SubSeq(last.before, SelEnd + 1, Len(last.before))

\* insert_newline returns an empty selection and replaces the selected
\* range by one '\n'.
NewlineSpliced ==
    /\ last.anchor = last.pos
    /\ rope = Spliced(<<LF>>)

ReplaceSelectionContract ==
    last.op = "replace_selection" =>
        /\ last.anchor = last.pos
        /\ EmptySelection => SelStart = CursorOffset /\ SelEnd = CursorOffset
        /\ rope = Spliced(last.text)
        /\ last.pos = char_to_pos(Tables, rope, SelStart + Len(last.text))

\* replace_selection was given the whole content selected from its end to
\* its start and left the text alone, the cursor after it.
ReplaceSelectionContractWitness ==
    /\ last.op = "replace_selection"
    /\ last.before = <<"a", LF>>
    /\ last.a = PosNew(1, 0)
    /\ last.b = PosNew(0, 0)
    /\ last.text = <<" ">>
    /\ rope = <<" ">>
    /\ last.pos = PosNew(0, 1)
    /\ last.anchor = PosNew(0, 1)

\* move_left and move_right change the offset by one, and stop at offset 0
\* and at len_chars.
MovesOneOffset ==
    /\ last.op = "move_left" =>
          pos_to_char(Tables, rope, last.pos) = Max(MotionFrom - 1, 0)
    /\ last.op = "move_right" =>
          pos_to_char(Tables, rope, last.pos) = Min(MotionFrom + 1, len_chars(rope))

\* The position the motion just made started from, clamped.
MotionStart == clamp_pos(Tables, rope, last.a)

\* What the claim concludes: right from the end of a line that has a next
\* line is column 0 of the next line, left from column 0 of a line after
\* the first is the end of the line before it, and left after right is the
\* clamped start when the start is before the end of the content.
MovesAcrossLines ==
    /\ last.op = "move_right"
          /\ MotionStart.col = line_len_chars(rope, MotionStart.line)
          /\ MotionStart.line < len_lines(rope) - 1
          => last.pos = PosNew(MotionStart.line + 1, 0)
    /\ last.op = "move_left" /\ MotionStart.col = 0 /\ MotionStart.line > 0
          => last.pos = PosNew(MotionStart.line - 1,
                               line_len_chars(rope, MotionStart.line - 1))
    /\ last.op = "move_right" /\ MotionFrom < len_chars(rope)
          => move_left(Tables, rope, last.pos) = MotionStart

SameColumnOn(line) == PosNew(line, Min(MotionStart.col, line_len_chars(rope, line)))

\* C24: with q the clamped p, move_up(p) is q on line 0 and else the column
\* of q, cut to the line's length, one line up; move_down(p) is q on the
\* last line and else the same one line down; when the motion cut the
\* column, a further move_up or move_down goes on from the cut column and
\* not from the column of q.
MoveUpDown ==
    /\ last.op = "move_up" =>
          last.pos = IF MotionStart.line = 0 THEN MotionStart
                     ELSE SameColumnOn(MotionStart.line - 1)
    /\ last.op = "move_down" =>
          last.pos = IF MotionStart.line = len_lines(rope) - 1 THEN MotionStart
                     ELSE SameColumnOn(MotionStart.line + 1)
    /\ last.op \in {"move_up", "move_down"} /\ last.pos.col < MotionStart.col =>
          /\ move_up(Tables, rope, last.pos).col <= last.pos.col
          /\ move_down(Tables, rope, last.pos).col <= last.pos.col
          /\ last.pos.line > 0 =>
                move_up(Tables, rope, last.pos).col
                    = Min(last.pos.col, line_len_chars(rope, last.pos.line - 1))
          /\ last.pos.line < len_lines(rope) - 1 =>
                move_down(Tables, rope, last.pos).col
                    = Min(last.pos.col, line_len_chars(rope, last.pos.line + 1))

\* move_down from column 2 of "aa\n" went to the empty last line, and
\* move_up from there is column 0 of the first line, not column 2.
MoveUpDownWitness ==
    /\ last.op = "move_down"
    /\ rope = <<"a", "a", LF>>
    /\ last.a = PosNew(0, 2)
    /\ last.pos = PosNew(1, 0)
    /\ move_up(Tables, rope, last.pos) = PosNew(0, 0)

\* What apply_edit gives on the content before the call for the replacement
\* of the range from the offset of the anchor to the offset of the cursor.
AsEdit ==
    apply_edit(Tables, last.before,
               EditReplace(pos_to_char(Tables, last.before, last.a),
                           pos_to_char(Tables, last.before, last.b), last.text))

\* What replace_selection gives on the content before the call for the same
\* selection and the text "\n".
AsReplaceByNewline ==
    replace_selection(Tables, last.before, SelectionNew(last.a, last.b), <<LF>>)

\* C25: replace_selection(sel, text) leaves the content and returns the
\* cursor that apply_edit gives for Edit::replace of the range between the
\* offsets of anchor and cursor; insert_newline(sel) gives the content and
\* the selection of replace_selection(sel, "\n").
ReplaceAgreesWithEdit ==
    /\ last.op = "replace_selection" =>
          /\ rope = AsEdit.rope
          /\ last.pos = AsEdit.pos
          /\ last.anchor = AsEdit.pos
    /\ last.op = "insert_newline" =>
          /\ rope = AsReplaceByNewline.rope
          /\ last.pos = AsReplaceByNewline.sel.cursor
          /\ last.anchor = AsReplaceByNewline.sel.anchor

\* replace_selection replaced the '\n' of "a\n", selected from its end to
\* its start, so that the range of the edit has its ends the wrong way
\* round.
ReplaceAgreesWithEditWitness ==
    /\ last.op = "replace_selection"
    /\ last.before = <<"a", LF>>
    /\ last.a = PosNew(1, 0)
    /\ last.b = PosNew(0, 1)
    /\ last.text = <<"a">>
    /\ rope = <<"a", "a">>
    /\ last.pos = PosNew(0, 2)
    /\ AsEdit.pos = PosNew(0, 2)

\* C26: delete_selection returns removed = TRUE only when the call removed
\* at least one character, and removed = FALSE only when the content is as
\* it was.
RemovedFlagReportsRemoval ==
    last.op = "delete_selection" =>
        /\ last.flag => len_chars(rope) < len_chars(last.before)
        /\ ~last.flag => rope = last.before

\* The table of the call of char_to_line_col gives line starts of a text:
\* line 0 starts at 0, no line starts before the one above it, and none
\* after the end of the text.
StartsOfAText ==
    /\ frame.n >= 1
    /\ frame.starts[1] = 0
    /\ \A i \in 1..(frame.n - 1) : frame.starts[i] <= frame.starts[i + 1]
    /\ frame.starts[frame.n] <= frame.total

\* The length of line l of that text, its line break counted.
LengthOfLine(l) ==
    IF l + 1 < frame.n THEN frame.starts[l + 2] - frame.starts[l + 1]
    ELSE frame.total - frame.starts[l + 1]

\* C27: for line starts of a text and every char_idx, char_to_line_col
\* returns the greatest line that starts at or before char_idx, a line of
\* the text, and a column no greater than the length of that line.
CharToLineColClamped ==
    frame.op = "char_to_line_col" /\ frame.pc = "done" /\ StartsOfAText =>
        /\ frame.line <= frame.n - 1
        /\ frame.starts[frame.line + 1] <= frame.a
        /\ \A l \in (frame.line + 1)..(frame.n - 1) : frame.starts[l + 1] > frame.a
        /\ frame.col <= LengthOfLine(frame.line)

\* C28: for every current index, every delta and every len_chars,
\* move_char_clamped completes without arithmetic overflow and returns an
\* index in [0, len_chars].
MoveCharClampedInBounds ==
    frame.op = "move_char_clamped" =>
        /\ frame.pc = "done"
        /\ 0 <= frame.result
        /\ frame.result <= frame.n

\* The keys of the cached entries, in the order of the Vec.
CachedKeys == [i \in 1..Len(cache.entries) |-> KeyOf(cache.entries[i])]

\* The keys used last, as many as there are entries.
MostRecentKeys ==
    {cache.order[i] : i \in (Len(cache.order) - Len(cache.entries) + 1)..Len(cache.order)}

\* C29: for a cache from new(n) or from Default, after any calls the number
\* of entries is at most max_entries, no two entries have the same
\* (line_idx, hash), and every miss at capacity has removed the entry used
\* longest ago, so that the entries are those of the keys used last.
CacheBoundedLru ==
    /\ Len(cache.entries) <= cache.max_entries
    /\ \A i, j \in 1..Len(cache.entries) : CachedKeys[i] = CachedKeys[j] => i = j
    /\ {CachedKeys[i] : i \in 1..Len(cache.entries)} = MostRecentKeys

\* A call of a helper with a loop is running.
InALoop == frame.pc \in {"loop", "delims", "word"}

\* A step of a running loop: a scan of word_start_before that stays in its
\* loop has moved c down, one of word_end_after has moved it up, neither
\* has left [0, len_chars], and a turn of the binary search has neither
\* panicked nor left hi - lo as large as it was.
LoopStepShrinks ==
    /\ frame.op = "word_start_before" /\ InALoop /\ frame'.pc = frame.pc =>
          frame'.lo < frame.lo /\ frame'.lo >= 0
    /\ frame.op = "word_end_after" /\ InALoop /\ frame'.pc = frame.pc =>
          frame'.lo > frame.lo /\ frame'.lo <= frame.n
    /\ frame.op = "char_to_line_col" /\ InALoop /\ frame.lo < frame.hi =>
          /\ frame'.pc = "loop"
          /\ frame'.hi - frame'.lo < frame.hi - frame.lo
          /\ frame'.hi - frame'.lo >= 0

\* C30: every turn of the scan loops of word_start_before and word_end_after
\* moves the offset towards 0 or towards len_chars, every turn of the
\* binary search of char_to_line_col shrinks hi - lo, for every line_count
\* and every line_to_char, and so every call returns.
LoopsTerminate ==
    /\ [][LoopStepShrinks]_vars
    /\ InALoop ~> (frame.pc = "done")

====
